---- MODULE Spec2Model ----
(***************************************************************************)
(* Call-graph reachability analysis (pkg/codeql/callgraph.go) and the      *)
(* concurrent enrichment pipeline (QueryEnricher.EnrichResults) of slice.  *)
(*                                                                         *)
(* A Go string that the code splits on ':' (a function ID) is represented  *)
(* by the list of its ':'-separated fields, so that fmt.Sprintf of an ID   *)
(* and strings.Split of it are both modelled by what they do.              *)
(***************************************************************************)
EXTENDS Integers, Sequences, FiniteSets, TLC

VARIABLES
    functions,  \* []parser.Function: the registry handed to BuildCallGraph
    cg,         \* *CallGraph built from it (g's vertices and edges, functions index)
    query,      \* arguments of the last AnalyzeReachability call
    res,        \* the *ReachabilityAnalysis it returned
    \* EnrichResults: its arguments
    sourceDir,      \* e.sourceDir
    results,        \* []CodeQLResult
    callGraphNil,   \* callGraph == nil (otherwise callGraph is cg)
    validateCalls,
    callDepth,
    numWorkers,
    \* EnrichResults: its locals, shared with the goroutines
    validationStats,    \* the atomic counters total, valid, invalid
    workChan, workClosed,
    resultChan, resultClosed,
    wg,                 \* the WaitGroup counter
    worker,             \* per worker: where it is and its loop locals
    closer,             \* the goroutine that waits and closes resultChan
    mainPC, sendIndex,  \* where EnrichResults itself is
    findingsMap,
    enrichedResults,    \* the returned slice
    logged,             \* the counters as loaded for the statistics line
    returnedErr,        \* the returned error: <<>> is nil
    sentCount,          \* history: results sent per index
    reordered,          \* history: a result was collected after one of a larger index
    panicked,           \* a send on a closed channel happened
    \* WorkerPool.ProcessItems: its arguments
    poolItems,          \* items []TIn, each with the outcome the processor has for it
    poolConcurrency,    \* wp.concurrency
    ctxDone,            \* ctx.Done() is closed
    \* WorkerPool.ProcessItems: its locals, shared with the goroutines
    poolWorkChan, poolWorkClosed,
    poolResultChan, poolResultClosed,
    poolWg,
    poolWorker,
    poolCloser,
    poolPC, poolSendIndex,
    poolResults,        \* results []TOut
    firstErr,           \* <<>> is nil
    completed,
    poolReturned,       \* what ProcessItems returned: <<[results, err]>>, <<>> before
    processed,          \* history: processor.Process calls per index
    receivedErrors,     \* history: the non-nil errors in the order they were collected
    \* Executor.parseCSVOutput
    csvReadError,       \* reader.ReadAll() returned an error
    csvRecords,         \* the records it returned otherwise
    csvReturned,        \* what parseCSVOutput returned: <<[results, err]>>, <<>> before
    \* parser.GetCachedAnalysisResult
    cache,              \* the package variable cache: directory -> *AnalysisResult
    cacheCaller,        \* per concurrent caller: where it is and its locals
    parseCount,         \* history: analyzeDirectory calls per directory
    assignCount,        \* history: assignments of cache[directory] per directory
    \* reachabilityAnalyzer: one analyzer from newReachabilityAnalyzer to buildResult
    analyzer,           \* *reachabilityAnalyzer
    built,              \* what buildResult returned: <<result>>, <<>> before
    \* calculatePathDepths
    depthPaths,         \* its argument paths
    depthResult,        \* what it returned: <<[min, max]>>, <<>> before
    \* CallGraph.HasPath and CallGraph.FindCallChains
    legacyQuery,        \* the arguments from, to, maxDepth given to both
    legacyResult        \* <<[hasPath, chains]>>: what the two returned, <<>> before

reachVars == <<query, res>>

argVars == <<sourceDir, results, callGraphNil, validateCalls, callDepth, numWorkers>>

runVars == <<validationStats, workChan, workClosed, resultChan, resultClosed, wg,
             worker, closer, mainPC, sendIndex, findingsMap, enrichedResults,
             logged, returnedErr, sentCount, reordered, panicked>>

poolVars == <<poolItems, poolConcurrency, ctxDone, poolWorkChan, poolWorkClosed,
              poolResultChan, poolResultClosed, poolWg, poolWorker, poolCloser,
              poolPC, poolSendIndex, poolResults, firstErr, completed,
              poolReturned, processed, receivedErrors>>

csvVars == <<csvReadError, csvRecords, csvReturned>>

cacheVars == <<cache, cacheCaller, parseCount, assignCount>>

pathVars == <<analyzer, built, depthPaths, depthResult, legacyQuery, legacyResult>>

auxVars == <<poolVars, csvVars, cacheVars, pathVars>>

vars == <<functions, cg, reachVars, argVars, runVars, auxVars>>

(***************************************************************************)
(* Bounds of the model and constants of the program.                       *)
(***************************************************************************)
MaxCallees == 3     \* callee references in an enumerated registry
MaxMid == 6         \* intermediate functions of a chain registry
MaxFindings == 2    \* len(results) of an EnrichResults call
MaxWorkers == 2     \* workers of an EnrichResults call

SearchCap == 5      \* findPaths: if searchDepth > 5 { searchDepth = 5 }
PathLimit == 10     \* addPaths: global limit on total paths
DefaultSearchDepth == 10    \* EnrichResults: searchDepth when callDepth < 0
MaxAutoWorkers == 16        \* EnrichResults: cap of the auto-detected worker count

Range(s) == {s[i] : i \in DOMAIN s}

Last(s) == s[Len(s)]

SetMin(S) == CHOOSE x \in S : \A y \in S : x <= y

SetMax(S) == CHOOSE x \in S : \A y \in S : x >= y

(***************************************************************************)
(* parser.Function and its ID.                                             *)
(***************************************************************************)

\* filepath.Join(dir, rel): dir and the result are lists of ':'-separated fields.
JoinPath(dir, rel) ==
    SubSeq(dir, 1, Len(dir) - 1) \o <<Last(dir) \o "/" \o rel>>

\* fmt.Sprintf("%s:%d:%s", filename, StartLine, functionName), as ':'-separated fields.
\* A function name is a C identifier: one field.
FunctionID(filename, startLine, name) ==
    filename \o <<ToString(startLine)>> \o <<name>>

Function(filename, startLine, name, callees) ==
    [ID |-> FunctionID(filename, startLine, name), Filename |-> filename,
     Name |-> name, StartLine |-> startLine, Callees |-> callees]

(***************************************************************************)
(* BuildCallGraph.                                                         *)
(***************************************************************************)

\* cg.functions[name] after the first loop: the IDs of the functions named
\* name, in registry order.
RECURSIVE IDsNamed(_, _)
IDsNamed(fns, name) ==
    IF fns = <<>> THEN <<>>
    ELSE (IF Head(fns).Name = name THEN <<Head(fns).ID>> ELSE <<>>)
         \o IDsNamed(Tail(fns), name)

\* Go map lookup cg.functions[name]: nil for a missing key.
Lookup(index, name) == IF name \in DOMAIN index THEN index[name] ELSE <<>>

\* BuildCallGraph resolving a callee name to the first function of that name only.
BuildCallGraphFirstMatch(fns) ==
    LET index == [n \in {f.Name : f \in Range(fns)} |-> IDsNamed(fns, n)]
    IN  [vertices  |-> {f.ID : f \in Range(fns)},
         functions |-> index,
         edges     |-> UNION {{<<caller.ID, Head(Lookup(index, callee))>> :
                                   callee \in {c \in caller.Callees :
                                                   Lookup(index, c) # <<>>}} :
                              caller \in Range(fns)}]

BuildCallGraph(fns) ==
    LET index == [n \in {f.Name : f \in Range(fns)} |-> IDsNamed(fns, n)]
    IN  [vertices  |-> {f.ID : f \in Range(fns)},
         functions |-> index,
         edges     |-> UNION {UNION {{<<caller.ID, calleeID>> :
                                          calleeID \in Range(Lookup(index, callee))} :
                                      callee \in caller.Callees} :
                              caller \in Range(fns)}]

(***************************************************************************)
(* graph.ShortestPath of github.com/dominikbraun/graph on the unweighted   *)
(* directed graph: Dijkstra with every edge of weight 1. It returns a path *)
(* with the fewest edges; which one, among several, depends on the         *)
(* iteration order of Go maps, so the model keeps the set of all of them.  *)
(* The empty set stands for ErrTargetNotReachable.                         *)
(***************************************************************************)
\* The vertices by distance from the start; the vertices reached from a level
\* are computed once per level, as a bound value.
RECURSIVE Levels(_, _, _)
Levels(edges, frontier, seen) ==
    IF frontier = {} THEN <<>>
    ELSE CHOOSE levels \in
             {<<frontier>> \o Levels(edges, next, seen \cup next) :
              next \in {{e[2] : e \in {e \in edges : e[1] \in frontier}} \ seen}} : TRUE

RECURSIVE PathsBack(_, _, _, _)
PathsBack(edges, levels, v, i) ==
    IF i = 1 THEN {<<v>>}
    ELSE UNION {{Append(p, v) : p \in PathsBack(edges, levels, u, i - 1)} :
                u \in {u \in levels[i - 1] : <<u, v>> \in edges}}

ShortestPath(g, from, to) ==
    UNION {LET hit == {i \in DOMAIN levels : to \in levels[i]}
           IN  IF hit = {} THEN {}
               ELSE PathsBack(g.edges, levels, to, CHOOSE i \in hit : TRUE) :
           levels \in {Levels(g.edges, {from}, {from})}}

(***************************************************************************)
(* reachabilityAnalyzer.                                                   *)
(***************************************************************************)

RECURSIVE JoinColon(_)
JoinColon(parts) ==
    IF Len(parts) = 0 THEN ""
    ELSE IF Len(parts) = 1 THEN parts[1]
    ELSE parts[1] \o ":" \o JoinColon(Tail(parts))

\* parts := strings.Split(funcID, ":"); parts[2] if there are at least 3.
extractFunctionName(funcID) ==
    IF Len(funcID) >= 3 THEN funcID[3] ELSE JoinColon(funcID)

NewAnalyzer(maxDepth, sourceFuncName, targetFuncName) ==
    [maxDepth |-> maxDepth, sourceFuncName |-> sourceFuncName,
     targetFuncName |-> targetFuncName, foundRelationship |-> FALSE,
     relationshipType |-> "NoRelationship", allPaths |-> <<>>,
     commonCallers |-> {}]

\* findPaths without the cap of 5 on the search depth.
findPathsUncapped(ra, g, from, to) ==
    LET shortest == ShortestPath(g, from, to)
    IN  IF shortest = {} THEN {<<>>}
        ELSE {IF Len(p) - 1 > ra.maxDepth THEN <<>>
              ELSE <<[i \in DOMAIN p |-> (IF Len(p[i]) >= 3 THEN p[i][3] ELSE p[i][1])]>> :
              p \in shortest}

\* findPaths with the search depth fixed at 5, whatever ra.maxDepth is.
findPathsFixedCap(ra, g, from, to) ==
    LET shortest == ShortestPath(g, from, to)
    IN  IF shortest = {} THEN {<<>>}
        ELSE {IF Len(p) - 1 > SearchCap THEN <<>>
              ELSE <<[i \in DOMAIN p |-> extractFunctionName(p[i])]>> :
              p \in shortest}

\* The possible return values of findPaths: the empty list, or the list of
\* the one shortest path converted to names.
findPaths(ra, g, from, to) ==
    LET searchDepth == IF ra.maxDepth > SearchCap THEN SearchCap ELSE ra.maxDepth
        shortest == ShortestPath(g, from, to)
    IN  IF shortest = {} THEN {<<>>}
        ELSE {IF Len(p) - 1 > searchDepth THEN <<>>
              ELSE <<[i \in DOMAIN p |-> extractFunctionName(p[i])]>> :
              p \in shortest}

RECURSIVE SetToSeq(_)
SetToSeq(S) ==
    IF S = {} THEN <<>>
    ELSE LET x == CHOOSE x \in S : TRUE IN <<x>> \o SetToSeq(S \ {x})

\* findCommonAncestors with the search enabled: the other vertices that reach both.
findCommonAncestorsEnabled(ra, g, sourceID, targetID) ==
    SetToSeq({v \in g.vertices \ {sourceID, targetID} :
                 ShortestPath(g, v, sourceID) # {} /\ ShortestPath(g, v, targetID) # {}})

\* Disabled in the code: always returns nil.
findCommonAncestors(ra, g, sourceID, targetID) == <<>>

\* addPaths without the global limit on total paths.
addPathsUnlimited(ra, paths) == [ra EXCEPT !.allPaths = @ \o paths]

RECURSIVE addPaths(_, _)
addPaths(ra, paths) ==
    IF paths = <<>> \/ Len(ra.allPaths) >= PathLimit THEN ra
    ELSE addPaths([ra EXCEPT !.allPaths = Append(@, Head(paths))], Tail(paths))

Found(ra, kind) ==
    [ra EXCEPT !.foundRelationship = TRUE, !.relationshipType = kind]

\* Case 4 of analyzePair, with the common callers already computed.
analyzeCommon(ra, g, sourceID, targetID, callers) ==
    IF Len(callers) > 0
    THEN {[addPaths(addPaths(Found(ra, "CommonAncestor"), paths1), paths2)
              EXCEPT !.commonCallers =
                  @ \cup {extractFunctionName(c) : c \in Range(callers)}] :
          paths1 \in findPaths(ra, g, callers[1], sourceID),
          paths2 \in findPaths(ra, g, callers[1], targetID)}
    ELSE {ra}

\* analyzePair with the backward case tried before the forward case.
analyzePairBackwardFirst(ra, g, sourceID, targetID) ==
    IF sourceID = targetID
    THEN {addPaths(Found(ra, "SameFunction"), <<<<extractFunctionName(sourceID)>>>>)}
    ELSE UNION {
        IF Len(bwd) > 0 THEN {addPaths(Found(ra, "BackwardReachable"), bwd)}
        ELSE UNION {
            IF Len(fwd) > 0 THEN {addPaths(Found(ra, "ForwardReachable"), fwd)}
            ELSE {ra} :
            fwd \in findPaths(ra, g, sourceID, targetID)} :
        bwd \in findPaths(ra, g, targetID, sourceID)}

\* The possible states of the analyzer after analyzePair(sourceID, targetID).
analyzePair(ra, g, sourceID, targetID) ==
    IF sourceID = targetID
    THEN {[Found(ra, "SameFunction") EXCEPT
              !.allPaths = Append(@, <<extractFunctionName(sourceID)>>)]}
    ELSE UNION {
        IF Len(fwd) > 0 THEN {addPaths(Found(ra, "ForwardReachable"), fwd)}
        ELSE UNION {
            IF Len(bwd) > 0 THEN {addPaths(Found(ra, "BackwardReachable"), bwd)}
            ELSE analyzeCommon(ra, g, sourceID, targetID,
                               findCommonAncestors(ra, g, sourceID, targetID)) :
            bwd \in findPaths(ra, g, targetID, sourceID)} :
        fwd \in findPaths(ra, g, sourceID, targetID)}

\* calculatePathDepths counting the names of a path instead of its calls.
calculatePathDepthsNames(paths) ==
    IF Len(paths) = 0 THEN [min |-> 0, max |-> 0]
    ELSE LET depths == {Len(paths[i]) : i \in DOMAIN paths}
         IN  [min |-> SetMin(depths), max |-> SetMax(depths)]

\* calculatePathDepths without its second loop: the plain minimum and maximum.
calculatePathDepthsPlain(paths) ==
    IF Len(paths) = 0 THEN [min |-> 0, max |-> 0]
    ELSE LET depths == {Len(paths[i]) - 1 : i \in DOMAIN paths}
         IN  [min |-> SetMin(depths), max |-> SetMax(depths)]

\* calculatePathDepths: the second loop raises max to the sum of the first
\* path's depth and the depth of any path that ends at another function.
calculatePathDepths(paths) ==
    IF Len(paths) = 0 THEN [min |-> 0, max |-> 0]
    ELSE LET depth(i) == Len(paths[i]) - 1
             depths == {depth(i) : i \in DOMAIN paths}
             sums == {depth(1) + depth(i) :
                      i \in {i \in 2..Len(paths) : Last(paths[i]) # Last(paths[1])}}
         IN  [min |-> SetMin(depths), max |-> SetMax(depths \cup sums)]

\* strings.Join(path, "->"), the key of a path in deduplicatePaths.
RECURSIVE JoinArrow(_)
JoinArrow(path) ==
    IF Len(path) = 0 THEN ""
    ELSE IF Len(path) = 1 THEN path[1]
    ELSE path[1] \o "->" \o JoinArrow(Tail(path))

\* deduplicatePaths: the first path of every key is kept, in order.
RECURSIVE deduplicatePaths(_)
deduplicatePaths(paths) ==
    IF paths = <<>> THEN <<>>
    ELSE LET front == deduplicatePaths(SubSeq(paths, 1, Len(paths) - 1))
         IN  IF JoinArrow(Last(paths)) \in {JoinArrow(q) : q \in Range(front)}
             THEN front
             ELSE Append(front, Last(paths))

Relationship(kind) ==
    CASE kind = "SameFunction" -> "Functions are the same"
      [] kind = "ForwardReachable" -> "Source function can reach target function"
      [] kind = "BackwardReachable" -> "Target function can reach source function"
      [] kind = "CommonAncestor" -> "Functions have common caller"
      [] OTHER -> ""

NotFound(reason) ==
    [IsValid |-> FALSE, Reason |-> reason, CallChains |-> <<>>,
     CommonCallers |-> {}, MinDepth |-> 0, MaxDepth |-> 0]

buildResult(ra) ==
    IF ~ra.foundRelationship
    THEN NotFound("No reachability relationship found between functions")
    ELSE LET d == calculatePathDepths(ra.allPaths)
         IN  [IsValid |-> TRUE, Reason |-> Relationship(ra.relationshipType),
              CallChains |-> deduplicatePaths(ra.allPaths),
              CommonCallers |-> ra.commonCallers,
              MinDepth |-> d.min, MaxDepth |-> d.max]

\* The nested loops over sourceIDs and targetIDs with both early exits:
\* the pairs in source-major order, up to the first relationship found.
RECURSIVE analyzeAll(_, _, _)
analyzeAll(ras, g, pairs) ==
    IF pairs = <<>> THEN ras
    ELSE UNION {IF ra.foundRelationship THEN {ra}
                ELSE analyzeAll(analyzePair(ra, g, Head(pairs)[1], Head(pairs)[2]),
                                g, Tail(pairs)) :
                ra \in ras}

RECURSIVE Pairs(_, _)
Pairs(sourceIDs, targetIDs) ==
    IF sourceIDs = <<>> THEN <<>>
    ELSE [j \in DOMAIN targetIDs |-> <<Head(sourceIDs), targetIDs[j]>>]
         \o Pairs(Tail(sourceIDs), targetIDs)

\* AnalyzeReachability without the check for a missing target.
AnalyzeReachabilityNoTargetCheck(g, sourceFuncName, targetFuncName, maxDepth) ==
    LET sourceIDs == Lookup(g.functions, sourceFuncName)
        targetIDs == Lookup(g.functions, targetFuncName)
    IN  IF Len(sourceIDs) = 0
        THEN {NotFound("Free function not found in call graph")}
        ELSE {buildResult(ra) :
              ra \in analyzeAll({NewAnalyzer(maxDepth, sourceFuncName, targetFuncName)},
                                g, Pairs(sourceIDs, targetIDs))}

\* A name index that stores an empty entry for every name looked up and missing.
QueriedInserting(g, sourceFuncName, targetFuncName) ==
    [g EXCEPT !.functions =
        [n \in DOMAIN @ \cup {sourceFuncName, targetFuncName} |-> Lookup(@, n)]]

\* The call graph after cg.AnalyzeReachability(sourceFuncName, targetFuncName, _):
\* the two map lookups and graph.ShortestPath store nothing.
Queried(g, sourceFuncName, targetFuncName) == g

\* The possible results of cg.AnalyzeReachability(sourceFuncName, targetFuncName, maxDepth).
AnalyzeReachability(g, sourceFuncName, targetFuncName, maxDepth) ==
    LET sourceIDs == Lookup(g.functions, sourceFuncName)
        targetIDs == Lookup(g.functions, targetFuncName)
    IN  IF Len(sourceIDs) = 0
        THEN {NotFound("Free function not found in call graph")}
        ELSE IF Len(targetIDs) = 0
        THEN {NotFound("Use function not found in call graph")}
        ELSE {buildResult(ra) :
              ra \in analyzeAll({NewAnalyzer(maxDepth, sourceFuncName, targetFuncName)},
                                g, Pairs(sourceIDs, targetIDs))}

ValidateCallRelationship(g, freeFuncName, useFuncName, maxDepth) ==
    AnalyzeReachability(g, freeFuncName, useFuncName, maxDepth)

(***************************************************************************)
(* QueryEnricher. A pointer that may be nil is a sequence of length at     *)
(* most one. A text (a definition, a snippet) is the list of what it is    *)
(* made from; the empty list is the empty string.                          *)
(***************************************************************************)
ZeroFunctionCode == [DefinitionWithLineNumbers |-> <<>>, Snippet |-> <<>>]

ZeroSourceCode ==
    [FreeFunction |-> ZeroFunctionCode, UseFunction |-> ZeroFunctionCode,
     IntermediateFunctions |-> <<>>]

ZeroCodeQLResult ==
    [FreeFunctionName |-> "", FreeFunctionFile |-> "", FreeFunctionDefLine |-> 0,
     FreeLine |-> 0, UseFunctionName |-> "", UseFunctionFile |-> "",
     UseFunctionDefLine |-> 0, UseLine |-> 0]

ZeroFinding ==
    [CodeQLResult |-> ZeroCodeQLResult, SourceCode |-> ZeroSourceCode,
     CallValidation |-> <<>>]

\* parser.FindFunctionByID on the cached registry: the first function with
\* that ID, or nothing (the "function not found" error).
RECURSIVE FindFunctionByID(_, _)
FindFunctionByID(fns, functionID) ==
    IF fns = <<>> THEN <<>>
    ELSE IF Head(fns).ID = functionID THEN <<Head(fns)>>
    ELSE FindFunctionByID(Tail(fns), functionID)

\* Function.DefinitionWithLineNumbers: the text of that function.
Definition(fn) == <<"def">> \o fn.ID

\* getLineFromFile, with the comment put in its place when it fails: a text
\* fixed by the file and the line.
LineSnippet(filePath, lineNum) == filePath \o <<ToString(lineNum)>>

enrichWithSourceCode(dir, fns, result) ==
    LET freeFile == JoinPath(dir, result.FreeFunctionFile)
        useFile == JoinPath(dir, result.UseFunctionFile)
        freeFunc == FindFunctionByID(fns,
            FunctionID(freeFile, result.FreeFunctionDefLine, result.FreeFunctionName))
        useFunc == FindFunctionByID(fns,
            FunctionID(useFile, result.UseFunctionDefLine, result.UseFunctionName))
    IN  IF freeFunc = <<>> \/ useFunc = <<>>
        THEN [err |-> TRUE, finding |-> ZeroFinding]
        ELSE [err |-> FALSE,
              finding |->
                [CodeQLResult |-> result,
                 SourceCode |->
                   [FreeFunction |->
                      [DefinitionWithLineNumbers |-> Definition(freeFunc[1]),
                       Snippet |-> LineSnippet(freeFile, result.FreeLine)],
                    UseFunction |->
                      [DefinitionWithLineNumbers |-> Definition(useFunc[1]),
                       Snippet |-> LineSnippet(useFile, result.UseLine)],
                    IntermediateFunctions |-> <<>>],
                 CallValidation |-> <<>>]]

\* The worker going on with the zero Finding that came with the error.
FallbackZero(result) == ZeroFinding

\* The finding a worker goes on with when enrichWithSourceCode failed.
FallbackFinding(result) ==
    [CodeQLResult |-> result, SourceCode |-> ZeroSourceCode, CallValidation |-> <<>>]

Enriched(dir, fns, result) ==
    LET e == enrichWithSourceCode(dir, fns, result)
    IN  IF e.err THEN FallbackFinding(result) ELSE e.finding

\* The slices a range over a Go map with these keys can build.
Perms(S) == {p \in [1..Cardinality(S) -> S] : Range(p) = S}

\* extractIntermediateFunctions without the test that skips the free and the
\* use function.
extractIntermediateFunctionsAll(callChains, freeFunc, useFunc) ==
    Perms(UNION {Range(chain) : chain \in Range(callChains)})

\* The names in the order the Go map iteration gives them: any order.
extractIntermediateFunctions(callChains, freeFunc, useFunc) ==
    Perms({name \in UNION {Range(chain) : chain \in Range(callChains)} :
              name # freeFunc /\ name # useFunc})

RECURSIVE FirstNamed(_, _)
FirstNamed(fns, funcName) ==
    IF fns = <<>> THEN <<>>
    ELSE IF Head(fns).Name = funcName THEN <<Head(fns)>>
    ELSE FirstNamed(Tail(fns), funcName)

\* findFunctionByName: the code of the first function with that name, or
\* nothing (the "not found in codebase" error).
findFunctionByName(fns, funcName) ==
    LET function == FirstNamed(fns, funcName)
    IN  IF function = <<>> THEN <<>>
        ELSE LET fullFunc == FindFunctionByID(fns, function[1].ID)
             IN  <<[DefinitionWithLineNumbers |->
                        IF fullFunc = <<>> THEN Definition(function[1])
                        ELSE Definition(fullFunc[1]),
                    Snippet |-> <<>>]>>

IntermediateCode(fns, funcName) ==
    LET funcCode == findFunctionByName(fns, funcName)
    IN  IF funcCode = <<>>
        THEN [DefinitionWithLineNumbers |-> <<"// Function not found", funcName>>,
              Snippet |-> <<>>]
        ELSE funcCode[1]

NumWorkers(concurrency, numCPU) ==
    IF concurrency <= 0
    THEN (IF numCPU > MaxAutoWorkers THEN MaxAutoWorkers ELSE numCPU)
    ELSE concurrency

\* The search always run with the default depth of 10.
SearchDepthDefault(depth) == DefaultSearchDepth

SearchDepth(depth) == IF depth < 0 THEN DefaultSearchDepth ELSE depth

\* The validation run whenever a call graph is given.
ShouldValidateGraphOnly(validate, graphNil) == ~graphNil

ShouldValidate(validate, graphNil) == validate /\ ~graphNil

\* countValidation with includeResult left true for an invalid relationship.
countValidationKeepInvalid(validation, depth) ==
    IF validation.IsValid
    THEN (IF depth >= 0 /\ validation.MaxDepth > depth
          THEN [counter |-> "invalid", includeResult |-> FALSE]
          ELSE [counter |-> "valid", includeResult |-> TRUE])
    ELSE [counter |-> "invalid", includeResult |-> TRUE]

\* The counter updated after total, and includeResult, for a validation.
countValidation(validation, depth) ==
    IF validation.IsValid
    THEN (IF depth >= 0 /\ validation.MaxDepth > depth
          THEN [counter |-> "invalid", includeResult |-> FALSE]
          ELSE [counter |-> "valid", includeResult |-> TRUE])
    ELSE [counter |-> "invalid", includeResult |-> FALSE]

\* The message a worker sends for its item.
WorkResult(index, finding, includeResult) ==
    [index |-> index, finding |-> IF includeResult THEN <<finding>> ELSE <<>>,
     err |-> <<>>]

\* The closer not waiting for the workers.
WaitSkipped(counter) == TRUE

\* wg.Wait() that returns while one worker is still running.
WaitForAllButOne(counter) == counter <= 1

\* wg.Wait() returns.
WaitDone(counter) == counter = 0

\* A worker that returns without telling the WaitGroup.
WgDoneMissing(counter) == counter

\* defer wg.Done(): the counter after a worker returned.
WgDone(counter) == counter - 1

\* The results slice built from the largest index down.
RECURSIVE BuildDescending(_, _, _)
BuildDescending(map, i, n) ==
    IF i >= n THEN <<>>
    ELSE BuildDescending(map, i + 1, n) \o (IF i \in DOMAIN map THEN <<map[i]>> ELSE <<>>)

\* The ordered results slice built from findingsMap for indices i .. n-1.
RECURSIVE BuildOrdered(_, _, _)
BuildOrdered(map, i, n) ==
    IF i >= n THEN <<>>
    ELSE (IF i \in DOMAIN map THEN <<map[i]>> ELSE <<>>) \o BuildOrdered(map, i + 1, n)

\* A receive that leaves the item in the channel.
ReceivedKept(ch) == ch

\* The buffered channel after a receive took its first item.
Received(ch) == Tail(ch)

IdleWorker(pc) ==
    [pc |-> pc, index |-> -1, finding |-> ZeroFinding, includeResult |-> TRUE]

(***************************************************************************)
(* Registries the analysis is checked on.                                  *)
(***************************************************************************)

\* Source directories: a relative one, and one with a drive letter.
Roots == {<<"src">>, <<"C", "/src">>}

Names == {"f", "g", "h"}

\* The functions an enumerated registry is drawn from: two share the name f.
Slots == <<[file |-> "a.c", line |-> 10, name |-> "f"],
           [file |-> "a.c", line |-> 20, name |-> "g"],
           [file |-> "b.c", line |-> 10, name |-> "f"],
           [file |-> "a.c", line |-> 30, name |-> "h"]>>

RECURSIVE PickSlots(_, _, _, _)
PickSlots(root, present, calls, i) ==
    IF i > Len(Slots) THEN <<>>
    ELSE (IF i \in present
          THEN <<Function(JoinPath(root, Slots[i].file), Slots[i].line, Slots[i].name,
                          {c[2] : c \in {c \in calls : c[1] = i}})>>
          ELSE <<>>)
         \o PickSlots(root, present, calls, i + 1)

CallSets(present) ==
    {Range(c) \ {<<0, "">>} :
     c \in [1..MaxCallees -> (present \X Names) \cup {<<0, "">>}]}

GeneralRegistries ==
    UNION {UNION {{PickSlots(root, present, calls, 1) : calls \in CallSets(present)} :
                  present \in SUBSET DOMAIN Slots} :
           root \in Roots}

\* f, m1 .. mk, g in one file, each calling the next ("fwd") or the previous ("bwd").
ChainNames(k) == [i \in 1..(k + 2) |->
                     IF i = 1 THEN "f" ELSE IF i = k + 2 THEN "g"
                     ELSE "m" \o ToString(i - 1)]

Chain(root, k, dir) ==
    LET names == ChainNames(k)
    IN  [i \in 1..(k + 2) |->
            Function(JoinPath(root, "a.c"), 10 * i, names[i],
                     IF dir = "fwd"
                     THEN (IF i < k + 2 THEN {names[i + 1]} ELSE {})
                     ELSE (IF i > 1 THEN {names[i - 1]} ELSE {}))]

ChainRegistries ==
    {Chain(root, k, dir) : root \in Roots, k \in 0..MaxMid, dir \in {"fwd", "bwd"}}

\* f calls h and m1, and both call g: two shortest paths from f to g.
Diamond(root) ==
    <<Function(JoinPath(root, "a.c"), 10, "f", {"h", "m1"}),
      Function(JoinPath(root, "a.c"), 20, "h", {"g"}),
      Function(JoinPath(root, "a.c"), 30, "m1", {"g"}),
      Function(JoinPath(root, "a.c"), 40, "g", {})>>

DiamondRegistries == {Diamond(root) : root \in Roots}

Registries == GeneralRegistries \cup ChainRegistries \cup DiamondRegistries

\* Names asked about: registered ones and one that no registry holds.
QueryNames == {"f", "g", "h", "x"}

Depths == {-1, 0, 1, 2, 4, 5, 6, 10}

NoQuery == [source |-> "", target |-> "", maxDepth |-> 0]

NoResult == NotFound("")

\* No EnrichResults call is in progress.
NoRun ==
    /\ sourceDir = <<>> /\ results = <<>> /\ callGraphNil = TRUE
    /\ validateCalls = FALSE /\ callDepth = -1 /\ numWorkers = 0
    /\ validationStats = [total |-> 0, valid |-> 0, invalid |-> 0]
    /\ workChan = <<>> /\ workClosed = FALSE
    /\ resultChan = <<>> /\ resultClosed = FALSE
    /\ wg = 0 /\ worker = <<>> /\ closer = "idle"
    /\ mainPC = "idle" /\ sendIndex = 0
    /\ findingsMap = <<>> /\ enrichedResults = <<>>
    /\ logged = [total |-> 0, valid |-> 0, invalid |-> 0]
    /\ returnedErr = <<"not returned">>
    /\ sentCount = <<>> /\ reordered = FALSE /\ panicked = FALSE

\* No ProcessItems call is in progress.
NoPool ==
    /\ poolItems = <<>> /\ poolConcurrency = 0 /\ ctxDone = FALSE
    /\ poolWorkChan = <<>> /\ poolWorkClosed = FALSE
    /\ poolResultChan = <<>> /\ poolResultClosed = FALSE
    /\ poolWg = 0 /\ poolWorker = <<>> /\ poolCloser = "idle"
    /\ poolPC = "idle" /\ poolSendIndex = 0
    /\ poolResults = <<>> /\ firstErr = <<>> /\ completed = 0
    /\ poolReturned = <<>> /\ processed = <<>> /\ receivedErrors = <<>>

\* No parseCSVOutput call was made.
NoCsv == csvReadError = FALSE /\ csvRecords = <<>> /\ csvReturned = <<>>

\* No GetCachedAnalysisResult call is modelled.
NoCache == cache = <<>> /\ cacheCaller = <<>> /\ parseCount = <<>> /\ assignCount = <<>>

\* No analyzer, calculatePathDepths call or legacy query is modelled.
NoPaths ==
    /\ analyzer = <<>> /\ built = <<>>
    /\ depthPaths = <<>> /\ depthResult = <<>>
    /\ legacyQuery = <<>> /\ legacyResult = <<>>

NoAux == NoPool /\ NoCsv /\ NoCache /\ NoPaths

(***************************************************************************)
(* SpecReach: a call graph is built once, then queried.                    *)
(***************************************************************************)
InitReach ==
    /\ functions \in Registries
    /\ cg = BuildCallGraph(functions)
    /\ query = NoQuery
    /\ res = NoResult
    /\ NoRun /\ NoAux

Analyze(s, t, d) ==
    /\ query = NoQuery /\ mainPC = "idle" /\ analyzer = <<>>
    /\ query' = [source |-> s, target |-> t, maxDepth |-> d]
    /\ res' \in AnalyzeReachability(cg, s, t, d)
    /\ cg' = Queried(cg, s, t)
    /\ UNCHANGED <<functions, argVars, runVars, auxVars>>

NextReach == \E s \in QueryNames, t \in QueryNames, d \in Depths : Analyze(s, t, d)

SpecReach == InitReach /\ [][NextReach]_vars

(***************************************************************************)
(* SpecEnrich: one call of EnrichResults, from the point where the workers *)
(* have been started (wg.Add done for each) to its return.                 *)
(***************************************************************************)

\* The registry of a run: f -> m1 -> .. -> g, one edge more than the search cap
\* when MaxMid is 6.
EnrichRegistry(root) == Chain(root, MaxMid - 1, "fwd")

Result(freeName, freeDefLine, useName, useDefLine) ==
    [FreeFunctionName |-> freeName, FreeFunctionFile |-> "a.c",
     FreeFunctionDefLine |-> freeDefLine, FreeLine |-> freeDefLine + 1,
     UseFunctionName |-> useName, UseFunctionFile |-> "a.c",
     UseFunctionDefLine |-> useDefLine, UseLine |-> useDefLine + 2]

\* The findings of a run: m2 frees and its caller's caller f uses; free and use
\* in f, with a definition line that is not f's; f frees and g, at the end of the
\* chain, uses.
ResultPool ==
    {Result("m2", 30, "f", 10), Result("f", 11, "f", 10),
     Result("f", 10, "g", 10 * (MaxMid + 1))}

ResultLists == UNION {[1..n -> ResultPool] : n \in 0..MaxFindings}

\* callDepth is read only when the validation runs.
Modes ==
    {[validate |-> TRUE, nil |-> FALSE, depth |-> d] : d \in {-1, 1, 2}}
    \cup {[validate |-> FALSE, nil |-> FALSE, depth |-> 2],
          [validate |-> TRUE, nil |-> TRUE, depth |-> -1],
          [validate |-> FALSE, nil |-> TRUE, depth |-> -1]}

InitEnrich ==
    /\ sourceDir \in Roots
    /\ functions = EnrichRegistry(sourceDir)
    /\ cg = BuildCallGraph(functions)
    /\ query = NoQuery /\ res = NoResult
    /\ results \in ResultLists
    /\ \E m \in Modes :
        /\ validateCalls = m.validate
        /\ callGraphNil = m.nil
        /\ callDepth = m.depth
    /\ numWorkers \in {NumWorkers(c, n) : c \in 0..MaxWorkers, n \in 1..MaxWorkers}
    /\ validationStats = [total |-> 0, valid |-> 0, invalid |-> 0]
    /\ workChan = <<>> /\ workClosed = FALSE
    /\ resultChan = <<>> /\ resultClosed = FALSE
    /\ wg = numWorkers
    /\ worker = [w \in 1..numWorkers |-> IdleWorker("recv")]
    /\ closer = "idle"
    /\ mainPC = "send" /\ sendIndex = 0
    /\ findingsMap = <<>> /\ enrichedResults = <<>>
    /\ logged = [total |-> 0, valid |-> 0, invalid |-> 0]
    /\ returnedErr = <<"not returned">>
    /\ sentCount = [i \in 0..(Len(results) - 1) |-> 0]
    /\ reordered = FALSE
    /\ panicked = FALSE
    /\ NoAux

Frame == UNCHANGED <<functions, cg, reachVars, argVars, auxVars>>

\* for item := range workChan, then the body up to the first shared access:
\* enrichWithSourceCode or the substitute, and the validation when enabled.
WorkerReceive(w) ==
    /\ ~panicked /\ worker[w].pc = "recv" /\ workChan # <<>>
    /\ LET item == Head(workChan)
           finding == Enriched(sourceDir, functions, item.result)
       IN  IF ShouldValidate(validateCalls, callGraphNil)
           THEN \E validation \in
                    ValidateCallRelationship(cg, item.result.FreeFunctionName,
                        item.result.UseFunctionName, SearchDepth(callDepth)) :
                    worker' = [worker EXCEPT ![w] =
                        [pc |-> "total", index |-> item.index,
                         finding |-> [finding EXCEPT !.CallValidation = <<validation>>],
                         includeResult |-> TRUE]]
           ELSE worker' = [worker EXCEPT ![w] =
                    [pc |-> "send", index |-> item.index, finding |-> finding,
                     includeResult |-> TRUE]]
    /\ cg' = IF ShouldValidate(validateCalls, callGraphNil)
             THEN Queried(cg, Head(workChan).result.FreeFunctionName,
                          Head(workChan).result.UseFunctionName)
             ELSE cg
    /\ workChan' = Received(workChan)
    /\ UNCHANGED <<reordered, validationStats, workClosed, resultChan, resultClosed, wg, closer,
                   mainPC, sendIndex, findingsMap, enrichedResults, logged,
                   returnedErr, sentCount, panicked>>
    /\ UNCHANGED <<functions, reachVars, argVars, auxVars>>

\* validationStats.total.Add(1)
WorkerTotal(w) ==
    /\ ~panicked /\ worker[w].pc = "total"
    /\ validationStats' = [validationStats EXCEPT !.total = @ + 1]
    /\ worker' = [worker EXCEPT ![w].pc = "count"]
    /\ UNCHANGED <<reordered, workChan, workClosed, resultChan, resultClosed, wg, closer,
                   mainPC, sendIndex, findingsMap, enrichedResults, logged,
                   returnedErr, sentCount, panicked>>
    /\ Frame

\* valid.Add(1) or invalid.Add(1), and for a valid finding the intermediate
\* functions of its call chains.
WorkerCount(w) ==
    /\ ~panicked /\ worker[w].pc = "count"
    /\ LET me == worker[w]
           validation == me.finding.CallValidation[1]
           c == countValidation(validation, callDepth)
       IN  /\ validationStats' = [validationStats EXCEPT ![c.counter] = @ + 1]
           /\ IF c.counter = "valid"
              THEN \E names \in extractIntermediateFunctions(validation.CallChains,
                           me.finding.CodeQLResult.FreeFunctionName,
                           me.finding.CodeQLResult.UseFunctionName) :
                       worker' = [worker EXCEPT ![w] =
                           [me EXCEPT
                               !.pc = "send", !.includeResult = c.includeResult,
                               !.finding.SourceCode.IntermediateFunctions =
                                   @ \o [i \in DOMAIN names |->
                                            IntermediateCode(functions, names[i])]]]
              ELSE worker' = [worker EXCEPT ![w] =
                       [me EXCEPT !.pc = "send", !.includeResult = c.includeResult]]
    /\ UNCHANGED <<reordered, workChan, workClosed, resultChan, resultClosed, wg, closer,
                   mainPC, sendIndex, findingsMap, enrichedResults, logged,
                   returnedErr, sentCount, panicked>>
    /\ Frame

\* resultChan <- workResult{...}: a send on a closed channel panics.
WorkerSend(w) ==
    /\ ~panicked /\ worker[w].pc = "send"
    /\ IF resultClosed
       THEN panicked' = TRUE /\ UNCHANGED <<resultChan, worker, sentCount>>
       ELSE /\ Len(resultChan) < Len(results)
            /\ resultChan' = Append(resultChan,
                   WorkResult(worker[w].index, worker[w].finding,
                              worker[w].includeResult))
            /\ sentCount' = [sentCount EXCEPT ![worker[w].index] = @ + 1]
            /\ worker' = [worker EXCEPT ![w] = IdleWorker("recv")]
            /\ UNCHANGED panicked
    /\ UNCHANGED <<reordered, validationStats, workChan, workClosed, resultClosed, wg,
                   closer,
                   mainPC, sendIndex, findingsMap, enrichedResults, logged,
                   returnedErr>>
    /\ Frame

\* The range over the closed, drained workChan ends: defer wg.Done().
WorkerExit(w) ==
    /\ ~panicked /\ worker[w].pc = "recv" /\ workChan = <<>> /\ workClosed
    /\ worker' = [worker EXCEPT ![w].pc = "done"]
    /\ wg' = WgDone(wg)
    /\ UNCHANGED <<reordered, validationStats, workChan, workClosed, resultChan, resultClosed,
                   closer, mainPC, sendIndex, findingsMap, enrichedResults, logged,
                   returnedErr, sentCount, panicked>>
    /\ Frame

\* workChan <- workItem{index: i, result: result}
MainSend ==
    /\ ~panicked /\ mainPC = "send" /\ sendIndex < Len(results)
    /\ Len(workChan) < Len(results)
    /\ workChan' = Append(workChan,
           [index |-> sendIndex, result |-> results[sendIndex + 1]])
    /\ sendIndex' = sendIndex + 1
    /\ UNCHANGED <<reordered, validationStats, workClosed, resultChan, resultClosed, wg, worker,
                   closer, mainPC, findingsMap, enrichedResults, logged, returnedErr,
                   sentCount, panicked>>
    /\ Frame

\* close(workChan), and the goroutine that waits for the workers is started.
MainClose ==
    /\ ~panicked /\ mainPC = "send" /\ sendIndex = Len(results)
    /\ workClosed' = TRUE
    /\ closer' = "wait"
    /\ mainPC' = "collect"
    /\ UNCHANGED <<reordered, validationStats, workChan, resultChan, resultClosed, wg, worker,
                   sendIndex, findingsMap, enrichedResults, logged, returnedErr,
                   sentCount, panicked>>
    /\ Frame

\* wg.Wait(); close(resultChan)
CloserClose ==
    /\ ~panicked /\ closer = "wait" /\ WaitDone(wg)
    /\ resultClosed' = TRUE
    /\ closer' = "done"
    /\ UNCHANGED <<reordered, validationStats, workChan, workClosed, resultChan, wg, worker,
                   mainPC, sendIndex, findingsMap, enrichedResults, logged,
                   returnedErr, sentCount, panicked>>
    /\ Frame

\* One iteration of for result := range resultChan.
MainCollect ==
    /\ ~panicked /\ mainPC = "collect" /\ resultChan # <<>>
    /\ LET result == Head(resultChan)
       IN  findingsMap' = IF result.finding # <<>>
                          THEN (result.index :> result.finding[1]) @@ findingsMap
                          ELSE findingsMap
    /\ resultChan' = Tail(resultChan)
    /\ reordered' = (reordered \/ \E i \in DOMAIN findingsMap : i > Head(resultChan).index)
    /\ UNCHANGED <<validationStats, workChan, workClosed, resultClosed, wg, worker,
                   closer, mainPC, sendIndex, enrichedResults, logged, returnedErr,
                   sentCount, panicked>>
    /\ Frame

\* The range over the closed, drained resultChan ends; the ordered slice is built.
MainBuild ==
    /\ ~panicked /\ mainPC = "collect" /\ resultChan = <<>> /\ resultClosed
    /\ enrichedResults' = BuildOrdered(findingsMap, 0, Len(results))
    /\ mainPC' = IF validateCalls THEN "loadTotal" ELSE "return"
    /\ UNCHANGED <<reordered, validationStats, workChan, workClosed, resultChan, resultClosed,
                   wg, worker, closer, sendIndex, findingsMap, logged, returnedErr,
                   sentCount, panicked>>
    /\ Frame

\* total := validationStats.total.Load(), then valid, then invalid.
MainLoad(pc, counter, next) ==
    /\ ~panicked /\ mainPC = pc
    /\ logged' = [logged EXCEPT ![counter] = validationStats[counter]]
    /\ mainPC' = next
    /\ UNCHANGED <<reordered, validationStats, workChan, workClosed, resultChan, resultClosed,
                   wg, worker, closer, sendIndex, findingsMap, enrichedResults,
                   returnedErr, sentCount, panicked>>
    /\ Frame

MainLoadTotal == MainLoad("loadTotal", "total", "loadValid")

MainLoadValid == MainLoad("loadValid", "valid", "loadInvalid")

MainLoadInvalid == MainLoad("loadInvalid", "invalid", "return")

\* return enrichedResults, nil
MainReturn ==
    /\ ~panicked /\ mainPC = "return"
    /\ returnedErr' = <<>>
    /\ mainPC' = "done"
    /\ UNCHANGED <<reordered, validationStats, workChan, workClosed, resultChan, resultClosed,
                   wg, worker, closer, sendIndex, findingsMap, enrichedResults,
                   logged, sentCount, panicked>>
    /\ Frame

NextEnrich ==
    \/ \E w \in 1..numWorkers : WorkerReceive(w)
    \/ \E w \in 1..numWorkers : WorkerTotal(w)
    \/ \E w \in 1..numWorkers : WorkerCount(w)
    \/ \E w \in 1..numWorkers : WorkerSend(w)
    \/ \E w \in 1..numWorkers : WorkerExit(w)
    \/ MainSend
    \/ MainClose
    \/ CloserClose
    \/ MainCollect
    \/ MainBuild
    \/ MainLoadTotal
    \/ MainLoadValid
    \/ MainLoadInvalid
    \/ MainReturn

SpecEnrich == InitEnrich /\ [][NextEnrich]_vars

(***************************************************************************)
(* SpecGraph: the call graph under both of its uses, direct queries and    *)
(* the queries of the EnrichResults workers.                               *)
(***************************************************************************)
InitGraph == InitReach \/ InitEnrich

NextGraph == NextReach \/ NextEnrich

SpecGraph == InitGraph /\ [][NextGraph]_vars

(***************************************************************************)
(* SpecPool: one call of WorkerPool.ProcessItems. An item carries the      *)
(* outcome the processor has for it: its output, or an error with or       *)
(* without partial output.                                                 *)
(***************************************************************************)
MaxItems == 2       \* len(items) of a ProcessItems call

\* The zero value of TOut.
ZeroOut == 0

Item(val, fails, partial) == [val |-> val, fails |-> fails, partial |-> partial]

ItemPool == {Item(1, FALSE, FALSE), Item(2, TRUE, FALSE), Item(3, TRUE, TRUE)}

ItemLists == UNION {[1..n -> ItemPool] : n \in 0..MaxItems}

\* processor.Process(ctx, input): the output and the error, <<>> for nil.
Process(input) ==
    IF input.fails
    THEN [Data  |-> IF input.partial THEN 10 * input.val ELSE ZeroOut,
          Error |-> <<input.val>>]
    ELSE [Data |-> 10 * input.val + 1, Error |-> <<>>]

\* NewWorkerPool(concurrency).concurrency
NewWorkerPool(c) == IF c <= 0 THEN 1 ELSE c

\* A result whose Index is outside 0..numItems-1 is not stored.
InRange(index, numItems) == index >= 0 /\ index < numItems

\* The result stored in the first slot that still holds the zero value.
StoreInArrivalOrder(slice, index, data) ==
    IF \E i \in DOMAIN slice : slice[i] = ZeroOut
    THEN [slice EXCEPT ![SetMin({i \in DOMAIN slice : slice[i] = ZeroOut})] = data]
    ELSE slice

\* results[result.Index] = result.Data
Store(slice, index, data) == [slice EXCEPT ![index + 1] = data]

\* The error of the last failed result kept instead of the first.
KeepLast(first, err) == IF err # <<>> THEN err ELSE first

\* firstErr after a result with this error is collected.
KeepFirst(first, err) == IF err # <<>> /\ first = <<>> THEN err ELSE first

InitPool ==
    /\ functions = <<>> /\ cg = BuildCallGraph(functions)
    /\ query = NoQuery /\ res = NoResult
    /\ NoRun /\ NoCsv /\ NoCache /\ NoPaths
    /\ poolItems \in ItemLists
    /\ poolConcurrency \in {NewWorkerPool(c) : c \in 0..MaxWorkers}
    /\ ctxDone \in BOOLEAN
    /\ poolWorkChan = <<>> /\ poolWorkClosed = FALSE
    /\ poolResultChan = <<>> /\ poolResultClosed = FALSE
    /\ poolWg = 0 /\ poolWorker = <<>> /\ poolCloser = "idle"
    /\ poolPC = "start" /\ poolSendIndex = 0
    /\ poolResults = <<>> /\ firstErr = <<>> /\ completed = 0
    /\ poolReturned = <<>>
    /\ processed = [i \in 0..(Len(poolItems) - 1) |-> 0]
    /\ receivedErrors = <<>>

PoolFrame == UNCHANGED <<functions, cg, reachVars, argVars, runVars, csvVars,
                         cacheVars, pathVars, poolItems, poolConcurrency>>

\* if numItems == 0 { return []TOut{}, nil }
PoolReturnEmpty ==
    /\ poolPC = "start" /\ Len(poolItems) = 0
    /\ poolReturned' = <<[results |-> <<>>, err |-> <<>>]>>
    /\ poolPC' = "done"
    /\ UNCHANGED <<ctxDone, poolWorkChan, poolWorkClosed, poolResultChan,
                   poolResultClosed, poolWg, poolWorker, poolCloser, poolSendIndex,
                   poolResults, firstErr, completed, processed, receivedErrors>>
    /\ PoolFrame

\* The channels are made and wp.concurrency workers are started.
PoolStart ==
    /\ poolPC = "start" /\ Len(poolItems) > 0
    /\ poolWg' = poolConcurrency
    /\ poolWorker' = [w \in 1..poolConcurrency |-> [pc |-> "recv", result |-> <<>>]]
    /\ poolPC' = "send"
    /\ UNCHANGED <<ctxDone, poolWorkChan, poolWorkClosed, poolResultChan,
                   poolResultClosed, poolCloser, poolSendIndex, poolResults,
                   firstErr, completed, poolReturned, processed, receivedErrors>>
    /\ PoolFrame

\* workChan <- WorkItem[TIn]{Index: i, Data: item}
PoolSend ==
    /\ poolPC = "send" /\ poolSendIndex < Len(poolItems)
    /\ Len(poolWorkChan) < Len(poolItems)
    /\ poolWorkChan' = Append(poolWorkChan,
           [Index |-> poolSendIndex, Data |-> poolItems[poolSendIndex + 1]])
    /\ poolSendIndex' = poolSendIndex + 1
    /\ UNCHANGED <<ctxDone, poolWorkClosed, poolResultChan, poolResultClosed, poolWg,
                   poolWorker, poolCloser, poolPC, poolResults, firstErr, completed,
                   poolReturned, processed, receivedErrors>>
    /\ PoolFrame

\* close(workChan); the closer goroutine is started; results := make([]TOut, numItems)
PoolClose ==
    /\ poolPC = "send" /\ poolSendIndex = Len(poolItems)
    /\ poolWorkClosed' = TRUE
    /\ poolCloser' = "wait"
    /\ poolResults' = [i \in 1..Len(poolItems) |-> ZeroOut]
    /\ poolPC' = "collect"
    /\ UNCHANGED <<ctxDone, poolWorkChan, poolResultChan, poolResultClosed, poolWg,
                   poolWorker, poolSendIndex, firstErr, completed, poolReturned,
                   processed, receivedErrors>>
    /\ PoolFrame

\* for work := range workChan: the ctx.Done() check, then processor.Process.
PoolWorkerReceive(w) ==
    /\ poolWorker[w].pc = "recv" /\ poolWorkChan # <<>>
    /\ LET work == Head(poolWorkChan)
       IN  IF ctxDone
           THEN /\ poolWorker' = [poolWorker EXCEPT ![w].pc = "done"]
                /\ poolWg' = WgDone(poolWg)
                /\ UNCHANGED processed
           ELSE /\ poolWorker' = [poolWorker EXCEPT ![w] =
                       [pc |-> "send",
                        result |-> <<[Index |-> work.Index,
                                      Data  |-> Process(work.Data).Data,
                                      Error |-> Process(work.Data).Error]>>]]
                /\ processed' = [processed EXCEPT ![work.Index] = @ + 1]
                /\ UNCHANGED poolWg
    /\ poolWorkChan' = Tail(poolWorkChan)
    /\ UNCHANGED <<ctxDone, poolWorkClosed, poolResultChan, poolResultClosed,
                   poolCloser, poolPC, poolSendIndex, poolResults, firstErr,
                   completed, poolReturned, receivedErrors>>
    /\ PoolFrame

\* resultChan <- WorkResult[TOut]{Index, Data, Error}
PoolWorkerSend(w) ==
    /\ poolWorker[w].pc = "send"
    /\ ~poolResultClosed
    /\ Len(poolResultChan) < Len(poolItems)
    /\ poolResultChan' = Append(poolResultChan, poolWorker[w].result[1])
    /\ poolWorker' = [poolWorker EXCEPT ![w] = [pc |-> "recv", result |-> <<>>]]
    /\ UNCHANGED <<ctxDone, poolWorkChan, poolWorkClosed, poolResultClosed, poolWg,
                   poolCloser, poolPC, poolSendIndex, poolResults, firstErr,
                   completed, poolReturned, processed, receivedErrors>>
    /\ PoolFrame

\* The range over the closed, drained workChan ends: defer wg.Done().
PoolWorkerExit(w) ==
    /\ poolWorker[w].pc = "recv" /\ poolWorkChan = <<>> /\ poolWorkClosed
    /\ poolWorker' = [poolWorker EXCEPT ![w].pc = "done"]
    /\ poolWg' = WgDone(poolWg)
    /\ UNCHANGED <<ctxDone, poolWorkChan, poolWorkClosed, poolResultChan,
                   poolResultClosed, poolCloser, poolPC, poolSendIndex, poolResults,
                   firstErr, completed, poolReturned, processed, receivedErrors>>
    /\ PoolFrame

\* wg.Wait(); close(resultChan)
PoolCloserClose ==
    /\ poolCloser = "wait" /\ WaitDone(poolWg)
    /\ poolResultClosed' = TRUE
    /\ poolCloser' = "done"
    /\ UNCHANGED <<ctxDone, poolWorkChan, poolWorkClosed, poolResultChan, poolWg,
                   poolWorker, poolPC, poolSendIndex, poolResults, firstErr,
                   completed, poolReturned, processed, receivedErrors>>
    /\ PoolFrame

\* One iteration of for result := range resultChan.
PoolCollect ==
    /\ poolPC = "collect" /\ poolResultChan # <<>>
    /\ LET result == Head(poolResultChan)
       IN  /\ IF InRange(result.Index, Len(poolItems))
              THEN /\ poolResults' = Store(poolResults, result.Index, result.Data)
                   /\ firstErr' = KeepFirst(firstErr, result.Error)
              ELSE UNCHANGED <<poolResults, firstErr>>
           /\ receivedErrors' = IF result.Error # <<>>
                                THEN Append(receivedErrors, result.Error)
                                ELSE receivedErrors
    /\ completed' = completed + 1
    /\ poolResultChan' = Tail(poolResultChan)
    /\ UNCHANGED <<ctxDone, poolWorkChan, poolWorkClosed, poolResultClosed, poolWg,
                   poolWorker, poolCloser, poolPC, poolSendIndex, poolReturned,
                   processed>>
    /\ PoolFrame

\* The range over the closed, drained resultChan ends: return results, firstErr
PoolReturn ==
    /\ poolPC = "collect" /\ poolResultChan = <<>> /\ poolResultClosed
    /\ poolReturned' = <<[results |-> poolResults, err |-> firstErr]>>
    /\ poolPC' = "done"
    /\ UNCHANGED <<ctxDone, poolWorkChan, poolWorkClosed, poolResultChan,
                   poolResultClosed, poolWg, poolWorker, poolCloser, poolSendIndex,
                   poolResults, firstErr, completed, processed, receivedErrors>>
    /\ PoolFrame

\* The context's deadline passes, or its cancel function is called, during the call.
ContextDone ==
    /\ poolPC \in {"send", "collect"} /\ ~ctxDone
    /\ ctxDone' = TRUE
    /\ UNCHANGED <<poolWorkChan, poolWorkClosed, poolResultChan, poolResultClosed,
                   poolWg, poolWorker, poolCloser, poolPC, poolSendIndex, poolResults,
                   firstErr, completed, poolReturned, processed, receivedErrors>>
    /\ PoolFrame

NextPool ==
    \/ PoolReturnEmpty
    \/ PoolStart
    \/ PoolSend
    \/ PoolClose
    \/ \E w \in DOMAIN poolWorker : PoolWorkerReceive(w)
    \/ \E w \in DOMAIN poolWorker : PoolWorkerSend(w)
    \/ \E w \in DOMAIN poolWorker : PoolWorkerExit(w)
    \/ PoolCloserClose
    \/ PoolCollect
    \/ PoolReturn
    \/ ContextDone

SpecPool == InitPool /\ [][NextPool]_vars

(***************************************************************************)
(* SpecCalls: one call of EnrichResults or of ProcessItems, in every       *)
(* interleaving of its goroutines.                                         *)
(***************************************************************************)
InitCalls == InitEnrich \/ InitPool

NextCalls == NextEnrich \/ NextPool

SpecCalls == InitCalls /\ [][NextCalls]_vars

(***************************************************************************)
(* SpecLive: one call of EnrichResults or of ProcessItems under the Go     *)
(* scheduler: while some goroutine of the call can take a step, one of     *)
(* them does. Nothing makes the context of ProcessItems end.               *)
(***************************************************************************)
PoolStep ==
    \/ PoolReturnEmpty \/ PoolStart \/ PoolSend \/ PoolClose
    \/ \E w \in DOMAIN poolWorker :
          PoolWorkerReceive(w) \/ PoolWorkerSend(w) \/ PoolWorkerExit(w)
    \/ PoolCloserClose \/ PoolCollect \/ PoolReturn

InitLive == InitEnrich \/ InitPool

NextLive == NextEnrich \/ NextPool

Scheduling == WF_vars(NextEnrich) /\ WF_vars(PoolStep)

SpecLive == InitLive /\ [][NextLive]_vars /\ Scheduling

(***************************************************************************)
(* SpecCsv: Executor.parseCSVOutput. The input is what csv.Reader.ReadAll  *)
(* gives for csvData: an error, or the records, all with as many fields as *)
(* the first. A field is the list of its characters where the code parses  *)
(* it with strconv.Atoi, and a one-element list otherwise.                 *)
(***************************************************************************)
MaxRows == 2        \* data rows of the decoded CSV

requiredFields == <<"object", "free_func", "free_file", "free_func_def_ln", "free_ln",
                    "use_func", "use_file", "use_func_def_ln", "use_ln">>

Digit == [c \in {"0", "1", "2", "3", "4", "5", "6", "7", "8", "9"} |->
             CASE c = "0" -> 0 [] c = "1" -> 1 [] c = "2" -> 2 [] c = "3" -> 3
               [] c = "4" -> 4 [] c = "5" -> 5 [] c = "6" -> 6 [] c = "7" -> 7
               [] c = "8" -> 8 [] c = "9" -> 9]

RECURSIVE Decimal(_)
Decimal(digits) ==
    IF digits = <<>> THEN 0
    ELSE 10 * Decimal(SubSeq(digits, 1, Len(digits) - 1)) + Digit[Last(digits)]

\* strconv.Atoi(s): an optional sign and one or more decimal digits.
Atoi(s) ==
    LET signed == s # <<>> /\ s[1] \in {"+", "-"}
        digits == IF signed THEN Tail(s) ELSE s
    IN  IF digits = <<>> \/ \E i \in DOMAIN digits : digits[i] \notin DOMAIN Digit
        THEN [ok |-> FALSE, value |-> 0]
        ELSE [ok |-> TRUE,
              value |-> IF signed /\ s[1] = "-" THEN 0 - Decimal(digits)
                        ELSE Decimal(digits)]

\* headerMap[col] = i for the last column i named col.
HeaderMap(header) ==
    [col \in Range(header) |-> SetMax({i \in DOMAIN header : header[i] = col})]

\* The first required field missing from the header, <<>> when none is.
MissingField(headerMap) ==
    LET missing == {k \in DOMAIN requiredFields : requiredFields[k] \notin DOMAIN headerMap}
    IN  IF missing = {} THEN <<>> ELSE <<requiredFields[SetMin(missing)]>>

\* The CodeQLResult of a record whose four numbers were parsed.
RowResult(record, headerMap, ffDefLine, freeLine, fuDefLine, useLine) ==
    [ObjName             |-> record[headerMap["object"]],
     FreeFunctionName    |-> record[headerMap["free_func"]],
     FreeFunctionFile    |-> record[headerMap["free_file"]],
     FreeFunctionDefLine |-> ffDefLine,
     FreeLine            |-> freeLine,
     UseFunctionName     |-> record[headerMap["use_func"]],
     UseFunctionFile     |-> record[headerMap["use_file"]],
     UseFunctionDefLine  |-> fuDefLine,
     UseLine             |-> useLine]

\* The loop over the data rows with a row that does not parse left out.
RECURSIVE parseRowsSkipping(_, _, _, _)
parseRowsSkipping(records, headerMap, i, acc) ==
    IF i > Len(records) THEN [results |-> acc, err |-> <<>>]
    ELSE LET record == records[i]
             ffDefLine == Atoi(record[headerMap["free_func_def_ln"]])
             freeLine == Atoi(record[headerMap["free_ln"]])
             fuDefLine == Atoi(record[headerMap["use_func_def_ln"]])
             useLine == Atoi(record[headerMap["use_ln"]])
         IN  IF ffDefLine.ok /\ freeLine.ok /\ fuDefLine.ok /\ useLine.ok
             THEN parseRowsSkipping(records, headerMap, i + 1,
                      Append(acc, RowResult(record, headerMap, ffDefLine.value,
                                 freeLine.value, fuDefLine.value, useLine.value)))
             ELSE parseRowsSkipping(records, headerMap, i + 1, acc)

\* for i := 1; i < len(records); i++ { ... }: records[i] of the model is the
\* code's records[i-1].
RECURSIVE parseRows(_, _, _, _)
parseRows(records, headerMap, i, acc) ==
    IF i > Len(records) THEN [results |-> acc, err |-> <<>>]
    ELSE LET record == records[i]
             ffDefLine == Atoi(record[headerMap["free_func_def_ln"]])
             freeLine == Atoi(record[headerMap["free_ln"]])
             fuDefLine == Atoi(record[headerMap["use_func_def_ln"]])
             useLine == Atoi(record[headerMap["use_ln"]])
         IN  IF ~ffDefLine.ok
             THEN [results |-> <<>>,
                   err |-> <<"invalid ffDefLine value">> \o record[headerMap["free_func_def_ln"]]]
             ELSE IF ~freeLine.ok
             THEN [results |-> <<>>,
                   err |-> <<"invalid freeLine value">> \o record[headerMap["free_ln"]]]
             ELSE IF ~fuDefLine.ok
             THEN [results |-> <<>>,
                   err |-> <<"invalid fuDefLine value">> \o record[headerMap["use_func_def_ln"]]]
             ELSE IF ~useLine.ok
             THEN [results |-> <<>>,
                   err |-> <<"invalid use_ln value">> \o record[headerMap["use_ln"]]]
             ELSE parseRows(records, headerMap, i + 1,
                      Append(acc, RowResult(record, headerMap, ffDefLine.value,
                                 freeLine.value, fuDefLine.value, useLine.value)))

\* parseCSVOutput(csvData), given what reader.ReadAll() returned for csvData.
parseCSVOutput(readError, records) ==
    IF readError THEN [results |-> <<>>, err |-> <<"failed to parse CSV">>]
    ELSE IF Len(records) = 0 THEN [results |-> <<>>, err |-> <<>>]
    ELSE LET headerMap == HeaderMap(records[1])
             missing == MissingField(headerMap)
         IN  IF missing # <<>>
             THEN [results |-> <<>>, err |-> <<"required field not found in CSV header">> \o missing]
             ELSE parseRows(records, headerMap, 2, <<>>)

\* Headers: the required columns in order; the same reversed after an extra
\* column; one without the use_ln column.
Headers ==
    {requiredFields,
     <<"msg">> \o [i \in 1..9 |-> requiredFields[10 - i]],
     SubSeq(requiredFields, 1, 8)}

\* The fields of a data row by column name.
Row(obj, ffDefLine, freeLine, fuDefLine, useLine) ==
    [msg |-> <<"m">>, object |-> <<obj>>,
     free_func |-> <<"f">>, free_file |-> <<"a.c">>,
     free_func_def_ln |-> ffDefLine, free_ln |-> freeLine,
     use_func |-> <<"g">>, use_file |-> <<"b.c">>,
     use_func_def_ln |-> fuDefLine, use_ln |-> useLine]

RowPool ==
    {Row("p", <<"1", "0">>, <<"1", "2">>, <<"2", "0">>, <<"2", "5">>),
     Row("q", <<"-", "3">>, <<"+", "7">>, <<"0">>, <<"0", "4">>),
     Row("r", <<"x">>, <<"1", "2">>, <<"2", "0">>, <<"2", "5">>),
     Row("s", <<"1", "0">>, <<>>, <<"2", "0">>, <<"2", "5">>),
     Row("t", <<"1", "0">>, <<"1", "2">>, <<"2", ".", "0">>, <<"2", "5">>),
     Row("u", <<"1", "0">>, <<"1", "2">>, <<"2", "0">>, <<"-">>),
     Row("v", <<"1", "0">>, <<"1", "2">>, <<"2", "0">>, <<"5", " ">>)}

\* The record of a data row under a header.
Record(header, row) == [i \in DOMAIN header |-> row[header[i]]]

CsvInputs ==
    {<<>>} \cup
    UNION {UNION {{<<header>> \o [k \in 1..n |-> Record(header, rows[k])] :
                      rows \in [1..n -> RowPool]} :
                  n \in 0..MaxRows} :
           header \in Headers}

InitCsv ==
    /\ functions = <<>> /\ cg = BuildCallGraph(functions)
    /\ query = NoQuery /\ res = NoResult
    /\ NoRun /\ NoPool /\ NoCache /\ NoPaths
    /\ \/ csvReadError = TRUE /\ csvRecords = <<>>
       \/ csvReadError = FALSE /\ csvRecords \in CsvInputs
    /\ csvReturned = <<>>

ParseCSV ==
    /\ csvReturned = <<>>
    /\ csvReturned' = <<parseCSVOutput(csvReadError, csvRecords)>>
    /\ UNCHANGED <<functions, cg, reachVars, argVars, runVars, poolVars, cacheVars,
                   pathVars, csvReadError, csvRecords>>

NextCsv == ParseCSV

SpecCsv == InitCsv /\ [][NextCsv]_vars

(***************************************************************************)
(* SpecCache: concurrent callers of parser.GetCachedAnalysisResult, as the *)
(* EnrichResults workers are through FindFunctionByID. An *AnalysisResult  *)
(* is the number of the analyzeDirectory call that made it.                *)
(***************************************************************************)
MaxCalls == 2       \* calls of GetCachedAnalysisResult by one caller

\* Directories asked for; analyzeDirectory fails for the last one.
Directories == {"src", "lib", "missing"}

\* analyzeDirectory(directory) returns an error.
AnalyzeFails(directory) == directory = "missing"

IdleCaller == [pc |-> "idle", directory |-> "", result |-> <<>>, err |-> FALSE, calls |-> 0]

InitCache ==
    /\ functions = <<>> /\ cg = BuildCallGraph(functions)
    /\ query = NoQuery /\ res = NoResult
    /\ NoRun /\ NoPool /\ NoCsv /\ NoPaths
    /\ cache = <<>>
    /\ cacheCaller \in {[c \in 1..n |-> IdleCaller] : n \in 1..MaxWorkers}
    /\ parseCount = [d \in Directories |-> 0]
    /\ assignCount = [d \in Directories |-> 0]

CacheFrame == UNCHANGED <<functions, cg, reachVars, argVars, runVars, poolVars, csvVars,
                          pathVars>>

\* A caller enters GetCachedAnalysisResult(directory).
CacheCall(c, directory) ==
    /\ cacheCaller[c].pc \in {"idle", "done"} /\ cacheCaller[c].calls < MaxCalls
    /\ cacheCaller' = [cacheCaller EXCEPT ![c] =
           [pc |-> "check", directory |-> directory, result |-> <<>>, err |-> FALSE,
            calls |-> cacheCaller[c].calls + 1]]
    /\ UNCHANGED <<cache, parseCount, assignCount>>
    /\ CacheFrame

\* The lookup under cacheMutex.RLock(): a hit returns the cached result.
CacheCheck(c) ==
    /\ cacheCaller[c].pc = "check"
    /\ LET me == cacheCaller[c]
       IN  cacheCaller' = [cacheCaller EXCEPT ![c] =
               IF me.directory \in DOMAIN cache
               THEN [me EXCEPT !.pc = "done", !.result = <<cache[me.directory]>>]
               ELSE [me EXCEPT !.pc = "parse"]]
    /\ UNCHANGED <<cache, parseCount, assignCount>>
    /\ CacheFrame

\* result, err := analyzeDirectory(directory), outside any lock.
CacheParse(c) ==
    /\ cacheCaller[c].pc = "parse"
    /\ LET directory == cacheCaller[c].directory
           made == 1 + parseCount["src"] + parseCount["lib"] + parseCount["missing"]
       IN  /\ parseCount' = [parseCount EXCEPT ![directory] = @ + 1]
           /\ cacheCaller' = [cacheCaller EXCEPT ![c] =
                  IF AnalyzeFails(directory)
                  THEN [cacheCaller[c] EXCEPT !.pc = "done", !.err = TRUE]
                  ELSE [cacheCaller[c] EXCEPT !.pc = "store", !.result = <<made>>]]
    /\ UNCHANGED <<cache, assignCount>>
    /\ CacheFrame

\* cache[directory] = result under cacheMutex.Lock(), then return result, nil.
CacheStore(c) ==
    /\ cacheCaller[c].pc = "store"
    /\ LET directory == cacheCaller[c].directory
       IN  /\ cache' = [d \in DOMAIN cache \cup {directory} |->
                           IF d = directory THEN cacheCaller[c].result[1] ELSE cache[d]]
           /\ assignCount' = [assignCount EXCEPT ![directory] = @ + 1]
    /\ cacheCaller' = [cacheCaller EXCEPT ![c].pc = "done"]
    /\ UNCHANGED parseCount
    /\ CacheFrame

NextCache ==
    \/ \E c \in DOMAIN cacheCaller, d \in Directories : CacheCall(c, d)
    \/ \E c \in DOMAIN cacheCaller : CacheCheck(c)
    \/ \E c \in DOMAIN cacheCaller : CacheParse(c)
    \/ \E c \in DOMAIN cacheCaller : CacheStore(c)

SpecCache == InitCache /\ [][NextCache]_vars

(***************************************************************************)
(* SpecPaths: one reachabilityAnalyzer. Relationships are recorded with    *)
(* batches of paths, as analyzePair does, then buildResult is called.      *)
(***************************************************************************)
MaxBatch == 2       \* paths handed to one addPaths call

\* The n-th distinct call chain from f to g.
Fresh(n) == <<"f", "m" \o ToString(n), "g">>

\* A batch of paths for an analyzer that holds n paths: each path is one that
\* was not added before, or the first one again.
Batches(n) ==
    {[i \in DOMAIN fresh |-> IF fresh[i] THEN Fresh(n + i) ELSE Fresh(1)] :
     fresh \in UNION {[1..k -> BOOLEAN] : k \in 1..MaxBatch}}

PathKinds == {"ForwardReachable", "BackwardReachable", "CommonAncestor"}

InitPaths ==
    /\ functions = <<>> /\ cg = BuildCallGraph(functions)
    /\ query = NoQuery /\ res = NoResult
    /\ NoRun /\ NoPool /\ NoCsv /\ NoCache
    /\ analyzer = NewAnalyzer(SearchCap, "f", "g")
    /\ built = <<>>
    /\ depthPaths = <<>> /\ depthResult = <<>>
    /\ legacyQuery = <<>> /\ legacyResult = <<>>

PathsFrame == UNCHANGED <<functions, cg, reachVars, argVars, runVars, poolVars, csvVars,
                          cacheVars, depthPaths, depthResult, legacyQuery, legacyResult>>

\* ra.foundRelationship = true; ra.relationshipType = kind; ra.addPaths(paths)
AddFound(kind, paths) ==
    /\ analyzer # <<>> /\ built = <<>>
    /\ analyzer' = addPaths(Found(analyzer, kind), paths)
    /\ UNCHANGED built
    /\ PathsFrame

\* return ra.buildResult()
Build ==
    /\ analyzer # <<>> /\ built = <<>>
    /\ built' = <<buildResult(analyzer)>>
    /\ UNCHANGED analyzer
    /\ PathsFrame

NextPaths ==
    \/ /\ analyzer # <<>>
       /\ \E kind \in PathKinds, paths \in Batches(Len(analyzer.allPaths)) :
              AddFound(kind, paths)
    \/ Build

SpecPaths == InitPaths /\ [][NextPaths]_vars

(***************************************************************************)
(* SpecDepths: calculatePathDepths applied to a list of call chains.       *)
(***************************************************************************)
MaxPaths == 3       \* len(paths) of a calculatePathDepths call

\* Call chains as findPaths and the same-function case produce them: one to
\* three names.
DepthChains == {<<"f">>, <<"f", "g">>, <<"f", "h">>, <<"f", "h", "g">>}

DepthInputs == UNION {[1..n -> DepthChains] : n \in 0..MaxPaths}

InitDepths ==
    /\ functions = <<>> /\ cg = BuildCallGraph(functions)
    /\ query = NoQuery /\ res = NoResult
    /\ NoRun /\ NoPool /\ NoCsv /\ NoCache
    /\ analyzer = <<>> /\ built = <<>>
    /\ depthPaths \in DepthInputs
    /\ depthResult = <<>>
    /\ legacyQuery = <<>> /\ legacyResult = <<>>

\* minDepth, maxDepth := calculatePathDepths(paths)
CalculateDepths ==
    /\ depthResult = <<>>
    /\ depthResult' = <<calculatePathDepths(depthPaths)>>
    /\ UNCHANGED <<functions, cg, reachVars, argVars, runVars, poolVars, csvVars,
                   cacheVars, analyzer, built, depthPaths, legacyQuery, legacyResult>>

NextDepths == CalculateDepths

SpecDepths == InitDepths /\ [][NextDepths]_vars

(***************************************************************************)
(* SpecLegacy: the legacy queries HasPath and FindCallChains, asked with   *)
(* the same arguments on a call graph built from a registry.               *)
(***************************************************************************)
\* cg.HasPath(from, to, maxDepth)
HasPath(g, from, to, maxDepth) ==
    IF from = to THEN TRUE
    ELSE LET shortest == ShortestPath(g, from, to)
         IN  IF shortest = {} THEN FALSE
             ELSE \A path \in shortest : Len(path) - 1 <= maxDepth

\* The possible return values of cg.FindCallChains(from, to, maxDepth): nil is
\* the empty list.
FindCallChains(g, from, to, maxDepth) ==
    IF from = to THEN {<<<<from>>>>}
    ELSE LET shortest == ShortestPath(g, from, to)
         IN  IF shortest = {} THEN {<<>>}
             ELSE {IF Len(path) > maxDepth THEN <<>> ELSE <<path>> : path \in shortest}

\* The identifiers asked about: those of the graph and one it does not have.
LegacyIDs == cg.vertices \cup {<<"b.c", "1", "x">>}

LegacyDepths == {0, 1, 2, 3, 7}

InitLegacy ==
    /\ functions \in Registries
    /\ cg = BuildCallGraph(functions)
    /\ query = NoQuery /\ res = NoResult
    /\ NoRun /\ NoPool /\ NoCsv /\ NoCache
    /\ analyzer = <<>> /\ built = <<>>
    /\ depthPaths = <<>> /\ depthResult = <<>>
    /\ legacyQuery = <<>> /\ legacyResult = <<>>

\* Both legacy queries are asked with the arguments from, to and maxDepth.
AskLegacy(from, to, maxDepth) ==
    /\ legacyQuery = <<>>
    /\ legacyQuery' = <<[from |-> from, to |-> to, maxDepth |-> maxDepth]>>
    /\ \E chains \in FindCallChains(cg, from, to, maxDepth) :
           legacyResult' = <<[hasPath |-> HasPath(cg, from, to, maxDepth),
                              chains  |-> chains]>>
    /\ UNCHANGED <<functions, cg, reachVars, argVars, runVars, poolVars, csvVars,
                   cacheVars, analyzer, built, depthPaths, depthResult>>

NextLegacy ==
    \E from \in LegacyIDs, to \in LegacyIDs, maxDepth \in LegacyDepths :
        AskLegacy(from, to, maxDepth)

SpecLegacy == InitLegacy /\ [][NextLegacy]_vars

(***************************************************************************)
(* SpecChains: the results of buildResult, from AnalyzeReachability over   *)
(* the registries and from an analyzer fed with batches of paths.          *)
(***************************************************************************)
InitChains == InitReach \/ InitPaths

NextChains == NextReach \/ NextPaths

SpecChains == InitChains /\ [][NextChains]_vars

(***************************************************************************)
(* What the properties below are stated in: the registry itself, and the   *)
(* paths of the "caller invokes callee" relation over its identifiers.     *)
(***************************************************************************)
Asked == query # NoQuery

Registered(name) == \E f \in Range(functions) : f.Name = name

IDsOf(name) == {f.ID : f \in {f \in Range(functions) : f.Name = name}}

Calls(u, v) ==
    \E c \in Range(functions), t \in Range(functions) :
        c.ID = u /\ t.ID = v /\ t.Name \in c.Callees

\* A directed call path from u to v with at most n edges.
RECURSIVE Within(_, _, _)
Within(u, v, n) ==
    \/ u = v
    \/ n > 0 /\ \E t \in Range(functions) : Calls(u, t.ID) /\ Within(t.ID, v, n - 1)

PathBetween(a, b, n) ==
    \E s \in IDsOf(a), t \in IDsOf(b) : Within(s, t, n) \/ Within(t, s, n)

SameFunctionReason == "Functions are the same"

ForwardReason == "Source function can reach target function"

BackwardReason == "Target function can reach source function"

\* C6: for every registered name X and every maxDepth, AnalyzeReachability(X, X,
\* maxDepth) is valid, SameFunction, with the single chain [X] and
\* MinDepth = MaxDepth = 0, also when several functions are named X.
C6_SameFunction ==
    (Asked /\ query.source = query.target /\ Registered(query.source))
        => /\ res.IsValid
           /\ res.Reason = SameFunctionReason
           /\ res.CallChains = <<<<query.source>>>>
           /\ res.MinDepth = 0 /\ res.MaxDepth = 0

\* C7: a name absent from the call graph gives IsValid = FALSE with a reason
\* naming the free (source) side when the source is absent and the use (target)
\* side when only the target is absent, no chains and zero depths.
C7_NotFound ==
    /\ (Asked /\ ~Registered(query.source))
           => res = [IsValid |-> FALSE,
                     Reason |-> "Free function not found in call graph",
                     CallChains |-> <<>>, CommonCallers |-> {},
                     MinDepth |-> 0, MaxDepth |-> 0]
    /\ (Asked /\ Registered(query.source) /\ ~Registered(query.target))
           => res = [IsValid |-> FALSE,
                     Reason |-> "Use function not found in call graph",
                     CallChains |-> <<>>, CommonCallers |-> {},
                     MinDepth |-> 0, MaxDepth |-> 0]

C7_Witness ==
    /\ Asked /\ Registered(query.source) /\ ~Registered(query.target)
    /\ functions # <<>>
    /\ res.Reason = "Use function not found in call graph"

DirectCall(a, b) ==
    /\ Registered(a) /\ Registered(b)
    /\ \E f \in Range(functions) : f.Name = a /\ b \in f.Callees

DirectResult(chain) ==
    /\ res.IsValid
    /\ res.Reason = ForwardReason
    /\ res.CallChains = <<chain>>
    /\ res.MinDepth = 1 /\ res.MaxDepth = 1

\* C8, in the case of two different names that each belong to one function: if
\* the function named A records a callee named B and both are registered,
\* AnalyzeReachability(A, B, d) with d >= 1 is valid, ForwardReachable, with the
\* single chain [A, B] and MinDepth = MaxDepth = 1.
C8_DirectCall ==
    (/\ Asked /\ DirectCall(query.source, query.target) /\ query.maxDepth >= 1
     /\ query.source # query.target
     /\ Cardinality(IDsOf(query.source)) = 1
     /\ Cardinality(IDsOf(query.target)) = 1)
        => DirectResult(<<query.source, query.target>>)

\* C9: two different registered names with no directed call path between any
\* of their identifiers, in either direction, give IsValid = FALSE for every
\* maxDepth.
C9_NoPath ==
    (/\ Asked /\ Registered(query.source) /\ Registered(query.target)
     /\ query.source # query.target
     /\ ~PathBetween(query.source, query.target, Len(functions)))
        => ~res.IsValid

C9_Witness ==
    /\ Asked /\ Registered(query.source) /\ Registered(query.target)
    /\ query.source # query.target
    /\ ~PathBetween(query.source, query.target, Len(functions))
    /\ \E f \in Range(functions) : f.Callees # {}
    /\ query.maxDepth = 10
    /\ ~res.IsValid
    /\ res.Reason = "No reachability relationship found between functions"

\* C10: if every directed call path between the source and target identifiers,
\* in either direction, has more than 5 edges, the result is IsValid = FALSE for
\* every maxDepth.
C10_BeyondCap ==
    (Asked /\ ~PathBetween(query.source, query.target, 5)) => ~res.IsValid

\* maxDepth = 10 and a shortest path of exactly 7 edges.
C10_Witness ==
    /\ Asked /\ query.maxDepth = 10
    /\ ~PathBetween(query.source, query.target, 6)
    /\ PathBetween(query.source, query.target, 7)
    /\ ~res.IsValid

\* The results the same query can give with another maxDepth.
OtherDepth(d) == AnalyzeReachability(cg, query.source, query.target, d)

\* C11 as stated: the result has the same IsValid and the same relationship
\* kind for every maxDepth, and a shortest path of at most 5 edges between two
\* registered names is always reported.
C11_FixedCap_Original ==
    Asked =>
        /\ \A d \in Depths : \A r \in OtherDepth(d) :
               r.IsValid = res.IsValid /\ r.Reason = res.Reason
        /\ (/\ Registered(query.source) /\ Registered(query.target)
            /\ PathBetween(query.source, query.target, 5)) => res.IsValid

\* C11 amended: the search depth is the smaller of maxDepth and 5. A query is
\* valid iff both names are registered and some pair of their identifiers is
\* joined, in either direction, by a path of at most min(maxDepth, 5) edges
\* (none for the same function); from maxDepth = 5 on, IsValid and the
\* relationship kind no longer depend on maxDepth.
C11_FixedCap ==
    Asked =>
        /\ res.IsValid <=>
               /\ Registered(query.source) /\ Registered(query.target)
               /\ PathBetween(query.source, query.target,
                              IF query.maxDepth > 5 THEN 5 ELSE query.maxDepth)
        /\ query.maxDepth >= 5 =>
               \A d \in {d \in Depths : d >= 5} : \A r \in OtherDepth(d) :
                   r.IsValid = res.IsValid /\ r.Reason = res.Reason

\* maxDepth = 2 and a shortest path of 3 edges: nothing is reported, while the
\* same query with maxDepth = 5 reports the path.
C11_Witness ==
    /\ Asked /\ query.maxDepth = 2
    /\ Registered(query.source) /\ Registered(query.target)
    /\ PathBetween(query.source, query.target, 3)
    /\ ~PathBetween(query.source, query.target, 2)
    /\ ~res.IsValid
    /\ \E r \in OtherDepth(5) : r.IsValid

\* C12: a second call with the same names and maxDepth on the same call graph
\* returns the same IsValid, relationship kind, CallChains and
\* MinDepth/MaxDepth, also when several shortest paths have the same length.
C12_Deterministic ==
    Asked =>
        \A r \in AnalyzeReachability(cg, query.source, query.target, query.maxDepth) :
            /\ r.IsValid = res.IsValid /\ r.Reason = res.Reason
            /\ r.CallChains = res.CallChains
            /\ r.MinDepth = res.MinDepth /\ r.MaxDepth = res.MaxDepth

\* C13: after BuildCallGraph no step changes the call graph: a query for
\* registered or unregistered names and every step of every EnrichResults worker
\* leave the vertex set, the edge set and the name index as they are.
C13_ReadOnly == [][cg' = cg]_vars

\* Two workers have both just queried the call graph.
C13_Witness ==
    /\ Cardinality({w \in DOMAIN worker : worker[w].pc = "total"}) >= 2
    /\ cg.edges # {}
    /\ cg = BuildCallGraph(functions)

\* C14: the call graph has one vertex per function identifier and the edge
\* (c, t) iff function c records a callee with the name of registered function
\* t, so one edge to every function sharing that name; a callee name that no
\* function has adds nothing; the name index maps each name to exactly the
\* identifiers of the functions with that name.
C14_Graph ==
    /\ cg.vertices = {f.ID : f \in Range(functions)}
    /\ \A u \in cg.vertices, v \in cg.vertices : (<<u, v>> \in cg.edges) <=> Calls(u, v)
    /\ cg.edges \subseteq cg.vertices \X cg.vertices
    /\ DOMAIN cg.functions = {f.Name : f \in Range(functions)}
    /\ \A n \in DOMAIN cg.functions : Range(cg.functions[n]) = IDsOf(n)

\* A callee name shared by two functions, and a callee name that no function has.
C14_Witness ==
    /\ \E c \in Range(functions) : \E n \in c.Callees :
           /\ Cardinality(IDsOf(n)) = 2
           /\ \A t \in IDsOf(n) : <<c.ID, t>> \in cg.edges
    /\ \E c \in Range(functions) : \E n \in c.Callees : ~Registered(n)
    /\ Asked

\* The search depth of a query: the smaller of maxDepth and 5.
Cap == IF query.maxDepth > 5 THEN 5 ELSE query.maxDepth

\* A call path of 1 .. Cap edges from u to v.
Forward(u, v) == u # v /\ Within(u, v, Cap)

RECURSIVE Ascending(_)
Ascending(S) == IF S = {} THEN <<>> ELSE <<SetMin(S)>> \o Ascending(S \ {SetMin(S)})

\* The identifiers of the functions of that name, in registry order.
IDsInOrder(name) ==
    LET at == Ascending({i \in DOMAIN functions : functions[i].Name = name})
    IN  [k \in DOMAIN at |-> functions[at[k]].ID]

\* The combinations of the query in the order they are tried: for each source
\* identifier, every target identifier.
Combinations ==
    LET S == IDsInOrder(query.source)
        T == IDsInOrder(query.target)
    IN  [p \in 1..(Len(S) * Len(T)) |->
            <<S[((p - 1) \div Len(T)) + 1], T[((p - 1) % Len(T)) + 1]>>]

Related(c) == c[1] = c[2] \/ Forward(c[1], c[2]) \/ Forward(c[2], c[1])

\* The first combination with any relationship, 0 when there is none.
Deciding ==
    LET related == {p \in DOMAIN Combinations : Related(Combinations[p])}
    IN  IF related = {} THEN 0 ELSE SetMin(related)

\* C20 as stated, with the search depth the code uses: BackwardReachable is
\* reported only if no combination of a source identifier and a target
\* identifier has a forward path within the search depth.
C20_Priority_Original ==
    (Asked /\ res.Reason = BackwardReason) =>
        ~\E s \in IDsOf(query.source), t \in IDsOf(query.target) : Forward(s, t)

\* C20 amended: the priority SameFunction, ForwardReachable, BackwardReachable
\* holds within one combination. The combinations are tried in registry order,
\* source-major, and the first one with any relationship decides the kind.
C20_Priority ==
    (Asked /\ Registered(query.source) /\ Registered(query.target)) =>
        IF Deciding = 0 THEN ~res.IsValid
        ELSE LET c == Combinations[Deciding]
             IN  /\ res.IsValid
                 /\ res.Reason = IF c[1] = c[2] THEN SameFunctionReason
                                 ELSE IF Forward(c[1], c[2]) THEN ForwardReason
                                 ELSE BackwardReason

\* Two functions share the source name: the first is only called by the target,
\* the second calls the target. BackwardReachable is reported.
C20_Witness ==
    /\ Asked /\ res.Reason = BackwardReason
    /\ Cardinality(IDsOf(query.source)) = 2
    /\ Deciding = 1
    /\ \E s \in IDsOf(query.source), t \in IDsOf(query.target) : Forward(s, t)

\* C27: a valid result of AnalyzeReachability has exactly one call chain, and
\* MinDepth and MaxDepth are both the number of calls of that chain: 0 for the
\* same function, otherwise 1 up to the smaller of maxDepth and 5. A result
\* that is not valid has no chain and both depths 0.
C27_OneChain ==
    Asked =>
        IF res.IsValid
        THEN /\ Len(res.CallChains) = 1
             /\ res.MinDepth = Len(res.CallChains[1]) - 1
             /\ res.MaxDepth = res.MinDepth
             /\ IF res.Reason = SameFunctionReason
                THEN res.MinDepth = 0
                ELSE res.MinDepth >= 1 /\ res.MinDepth <= Cap
        ELSE /\ res.CallChains = <<>>
             /\ res.MinDepth = 0 /\ res.MaxDepth = 0

\* A query with maxDepth above 5 found a chain of exactly 5 calls.
C27_Witness ==
    /\ Asked /\ res.IsValid /\ query.maxDepth > 5
    /\ Len(res.CallChains) = 1 /\ Len(res.CallChains[1]) = 6
    /\ res.MinDepth = 5 /\ res.MaxDepth = 5

(***************************************************************************)
(* EnrichResults: the properties of a finished call.                       *)
(***************************************************************************)
Returned == mainPC = "done"

Indices == 0..(Len(results) - 1)

Validating == validateCalls /\ ~callGraphNil

\* The reachability analysis of input i is valid and within the depth budget.
Passes(i) ==
    \E v \in AnalyzeReachability(cg, results[i + 1].FreeFunctionName,
                                 results[i + 1].UseFunctionName,
                                 IF callDepth < 0 THEN 10 ELSE callDepth) :
        v.IsValid /\ (callDepth < 0 \/ v.MaxDepth <= callDepth)

\* The position in the output of the retained input i, given the retained set.
Rank(kept, i) == Cardinality({j \in kept : j < i}) + 1

\* The source registry has the function a result names as free (use) function.
HasFunction(file, defLine, name) ==
    \E f \in Range(functions) :
        /\ f.Filename = JoinPath(sourceDir, file)
        /\ f.StartLine = defLine /\ f.Name = name

EnrichFails(i) ==
    LET r == results[i + 1]
    IN  \/ ~HasFunction(r.FreeFunctionFile, r.FreeFunctionDefLine, r.FreeFunctionName)
        \/ ~HasFunction(r.UseFunctionFile, r.UseFunctionDefLine, r.UseFunctionName)

\* C1: the returned findings are the retained inputs in input order, for every
\* worker count and every order in which the workers complete.
C1_InputOrder ==
    Returned =>
        /\ Len(enrichedResults) = Cardinality(DOMAIN findingsMap)
        /\ DOMAIN findingsMap \subseteq Indices
        /\ \A i \in DOMAIN findingsMap :
               enrichedResults[Rank(DOMAIN findingsMap, i)].CodeQLResult = results[i + 1]

\* Two different findings came back, the later input collected first.
C1_Witness ==
    /\ Returned /\ numWorkers >= 2 /\ reordered
    /\ Len(enrichedResults) = 2
    /\ enrichedResults[1].CodeQLResult # enrichedResults[2].CodeQLResult
    /\ enrichedResults[1].CodeQLResult = results[1]

\* C2: with validation enabled and a call graph present, input i is in the
\* output iff its analysis is valid and (callDepth < 0 or MaxDepth <= callDepth);
\* the others are left out, and every retained one is there once.
C2_Filter ==
    (Returned /\ Validating) =>
        LET kept == {i \in Indices : Passes(i)}
        IN  /\ DOMAIN findingsMap = kept
            /\ Len(enrichedResults) = Cardinality(kept)
            /\ \A i \in kept :
                   LET finding == enrichedResults[Rank(kept, i)]
                   IN  /\ finding.CodeQLResult = results[i + 1]
                       /\ finding.CallValidation # <<>>
                       /\ finding.CallValidation[1].IsValid

C2_Witness ==
    /\ Returned /\ Validating /\ callDepth >= 0
    /\ Len(results) = 2 /\ ~Passes(0) /\ Passes(1)
    /\ Len(enrichedResults) = 1
    /\ enrichedResults[1].CodeQLResult = results[2]

\* C3: with validation enabled, total = valid + invalid whenever the counters
\* are read: while the three loads run, and in the values loaded.
C3_Statistics ==
    validateCalls =>
        /\ mainPC \in {"loadTotal", "loadValid", "loadInvalid", "return", "done"}
               => validationStats.total
                      = validationStats.valid + validationStats.invalid
        /\ mainPC \in {"return", "done"}
               => /\ logged = validationStats
                  /\ logged.total = logged.valid + logged.invalid

C3_Witness ==
    /\ Returned /\ Validating /\ numWorkers >= 2
    /\ logged.valid >= 1 /\ logged.invalid >= 1 /\ logged.total = 2

\* C4: with validateCalls = FALSE every finding passes through: one finding per
\* input, in input order, none with a CallValidation, and the counters stay 0.
C4_NoValidation ==
    ~validateCalls =>
        /\ validationStats = [total |-> 0, valid |-> 0, invalid |-> 0]
        /\ Returned =>
               /\ Len(enrichedResults) = Len(results)
               /\ \A k \in DOMAIN results :
                      /\ enrichedResults[k].CodeQLResult = results[k]
                      /\ enrichedResults[k].CallValidation = <<>>

\* A call graph is given, and a finding that no validation would pass is returned.
C4_Witness ==
    /\ Returned /\ ~validateCalls /\ ~callGraphNil
    /\ Len(results) = 2 /\ ~Passes(0) /\ results[1] # results[2]
    /\ Len(enrichedResults) = 2

ProcessedAsUsual(i) ==
    /\ sentCount[i] = 1
    /\ (i \in DOMAIN findingsMap) <=> (~Validating \/ Passes(i))
    /\ i \in DOMAIN findingsMap =>
           /\ findingsMap[i].CodeQLResult = results[i + 1]
           /\ (findingsMap[i].CallValidation # <<>>) <=> Validating

\* C5: a finding whose source context cannot be built is neither dropped for
\* that nor aborts the batch: it goes on with its CodeQL fields and empty source
\* context, is validated and filtered like the others, one result is sent for
\* every input, and the call returns a nil error.
C5_EnrichError ==
    Returned =>
        /\ returnedErr = <<>> /\ ~panicked
        /\ \A i \in Indices :
               /\ ProcessedAsUsual(i)
               /\ (EnrichFails(i) /\ i \in DOMAIN findingsMap) =>
                      /\ findingsMap[i].SourceCode.FreeFunction = ZeroFunctionCode
                      /\ findingsMap[i].SourceCode.UseFunction = ZeroFunctionCode
               /\ (~EnrichFails(i) /\ i \in DOMAIN findingsMap) =>
                      /\ findingsMap[i].SourceCode.FreeFunction # ZeroFunctionCode
                      /\ findingsMap[i].SourceCode.UseFunction # ZeroFunctionCode

\* The failing finding passed the validation and came back beside another one.
C5_Witness ==
    /\ Returned /\ Validating /\ Len(results) = 2
    /\ EnrichFails(0) /\ ~EnrichFails(1)
    /\ Len(enrichedResults) = 2
    /\ enrichedResults[1].CodeQLResult = results[1]
    /\ enrichedResults[1].SourceCode.FreeFunction = ZeroFunctionCode
    /\ enrichedResults[1].CallValidation[1].IsValid

\* C17: with callDepth = -1 and validation on, a finding whose free and use
\* functions are joined by a directed call path of any length, in either
\* direction, is retained in the output.
C17_NoLimit ==
    (Returned /\ Validating /\ callDepth = -1) =>
        \A i \in Indices :
            PathBetween(results[i + 1].FreeFunctionName,
                        results[i + 1].UseFunctionName, Len(functions))
                => \E k \in DOMAIN enrichedResults :
                       enrichedResults[k].CodeQLResult = results[i + 1]

\* Some analysis of input i says that its functions are not related.
NotValid(i) ==
    \E v \in AnalyzeReachability(cg, results[i + 1].FreeFunctionName,
                                 results[i + 1].UseFunctionName, callDepth) :
        ~v.IsValid

\* C28: with the validation running and callDepth >= 0, no worker sees a valid
\* analysis deeper than callDepth, so the depth filter drops nothing: at the end
\* the invalid counter is the number of findings whose analysis is not valid,
\* the valid counter is the number of returned findings, and total is the
\* number of input findings.
C28_FilterIdle ==
    (Validating /\ callDepth >= 0) =>
        /\ \A w \in DOMAIN worker :
               (worker[w].pc = "count" /\ worker[w].finding.CallValidation[1].IsValid)
                   => worker[w].finding.CallValidation[1].MaxDepth <= callDepth
        /\ Returned =>
               /\ validationStats.invalid = Cardinality({i \in Indices : NotValid(i)})
               /\ validationStats.valid = Len(enrichedResults)
               /\ validationStats.total = Len(results)

\* callDepth is 2: a finding whose chain has exactly 2 calls is returned, and
\* one whose functions are 6 calls apart is counted as invalid.
C28_Witness ==
    /\ Returned /\ Validating /\ callDepth = 2
    /\ Len(results) = 2 /\ Len(enrichedResults) = 1
    /\ enrichedResults[1].CallValidation[1].MaxDepth = 2
    /\ validationStats = [total |-> 2, valid |-> 1, invalid |-> 1]

(***************************************************************************)
(* WorkerPool.ProcessItems: the properties of a finished call.             *)
(***************************************************************************)
PoolDone == poolPC = "done"

PoolIndices == 0..(Len(poolItems) - 1)

\* The processor returned an error for at least one item.
SomeError == \E i \in PoolIndices : processed[i] > 0 /\ poolItems[i + 1].fails

\* What ProcessItems returns when an item failed, apart from how many items
\* were processed: the first error collected, and a slice of length N holding
\* the output of every item processed without error at its index.
ErrorAndPartialResults ==
    /\ poolReturned[1].err # <<>>
    /\ poolReturned[1].err = receivedErrors[1]
    /\ Len(poolReturned[1].results) = Len(poolItems)
    /\ \A i \in PoolIndices :
           (processed[i] > 0 /\ ~poolItems[i + 1].fails)
               => poolReturned[1].results[i + 1] = 10 * poolItems[i + 1].val + 1

C16_PoolOrder ==
    (PoolDone /\ ~ctxDone) =>
        /\ Len(poolReturned[1].results) = Len(poolItems)
        /\ \A k \in DOMAIN poolItems :
               poolReturned[1].results[k] = Process(poolItems[k]).Data

\* The result of the second item was collected before the result of the first.
C16_Witness ==
    /\ PoolDone /\ ~ctxDone /\ poolConcurrency >= 2
    /\ Len(poolItems) = 2
    /\ receivedErrors = <<<<poolItems[2].val>>, <<poolItems[1].val>>>>
    /\ poolItems[1] # poolItems[2]
    /\ poolReturned[1].results[2] = 10 * poolItems[2].val

\* C29: when ProcessItems returns a nil error, every item was passed to the
\* processor once and results[i] is the processor's output for items[i], also
\* when the context ended during the call; and every item that a worker took
\* from the work queue was answered with a result message.
C29_NoSilentLoss ==
    PoolDone =>
        /\ poolReturned[1].err = <<>> =>
               /\ \A i \in PoolIndices : processed[i] = 1
               /\ \A k \in DOMAIN poolItems :
                      poolReturned[1].results[k] = Process(poolItems[k]).Data
        /\ completed = Len(poolItems) - Len(poolWorkChan)

(***************************************************************************)
(* Executor.parseCSVOutput: the properties of its result.                  *)
(***************************************************************************)
\* The texts that are integers, with their values.
IntegerTexts ==
    (<<"1", "0">> :> 10) @@ (<<"1", "2">> :> 12) @@ (<<"2", "0">> :> 20)
    @@ (<<"2", "5">> :> 25) @@ (<<"-", "3">> :> (0 - 3)) @@ (<<"+", "7">> :> 7)
    @@ (<<"0">> :> 0) @@ (<<"0", "4">> :> 4)

NumericColumns == {"free_func_def_ln", "free_ln", "use_func_def_ln", "use_ln"}

\* The field of a data row in the column of that name.
Column(record, name) ==
    record[CHOOSE i \in DOMAIN csvRecords[1] : csvRecords[1][i] = name]

BadRow(record) == \E col \in NumericColumns : Column(record, col) \notin DOMAIN IntegerTexts

\* The CSV was read and its header has every required column.
Decoded ==
    /\ csvReturned # <<>> /\ ~csvReadError /\ csvRecords # <<>>
    /\ \A k \in DOMAIN requiredFields : requiredFields[k] \in Range(csvRecords[1])

\* C18: if any data row has a non-integer text in one of the four line-number
\* columns, parseCSVOutput returns an error and no results; otherwise it
\* returns no error and one result per data row, in row order, with the row's
\* fields. Stated for a CSV that was read and has the required columns.
C18_Decoder ==
    Decoded =>
        LET rows == Tail(csvRecords)
            out == csvReturned[1]
        IN  IF \E k \in DOMAIN rows : BadRow(rows[k])
            THEN out.err # <<>> /\ out.results = <<>>
            ELSE /\ out.err = <<>>
                 /\ Len(out.results) = Len(rows)
                 /\ \A k \in DOMAIN rows :
                        out.results[k] =
                            [ObjName |-> Column(rows[k], "object"),
                             FreeFunctionName |-> Column(rows[k], "free_func"),
                             FreeFunctionFile |-> Column(rows[k], "free_file"),
                             FreeFunctionDefLine |->
                                 IntegerTexts[Column(rows[k], "free_func_def_ln")],
                             FreeLine |-> IntegerTexts[Column(rows[k], "free_ln")],
                             UseFunctionName |-> Column(rows[k], "use_func"),
                             UseFunctionFile |-> Column(rows[k], "use_file"),
                             UseFunctionDefLine |->
                                 IntegerTexts[Column(rows[k], "use_func_def_ln")],
                             UseLine |-> IntegerTexts[Column(rows[k], "use_ln")]]

\* A good row followed by a row with a malformed use_ln: an error, no results.
C18_Witness ==
    /\ Decoded /\ Len(csvRecords) = 3
    /\ ~BadRow(csvRecords[2])
    /\ Column(csvRecords[3], "use_ln") \notin DOMAIN IntegerTexts
    /\ csvRecords[1][1] = "msg"
    /\ csvReturned[1].err # <<>> /\ csvReturned[1].results = <<>>

(***************************************************************************)
(* parser.GetCachedAnalysisResult: the cache as a single-assignment store. *)
(***************************************************************************)
\* C19: over every interleaving of concurrent callers, the cache entry of a
\* directory is assigned at most once, the directory is parsed at most once,
\* and all callers that got a result for it got the same object.
C19_SingleAssignment ==
    \A d \in Directories :
        /\ assignCount[d] <= 1
        /\ ~AnalyzeFails(d) => parseCount[d] <= 1
        /\ \A a \in DOMAIN cacheCaller, b \in DOMAIN cacheCaller :
               (/\ cacheCaller[a].pc = "done" /\ cacheCaller[b].pc = "done"
                /\ cacheCaller[a].directory = d /\ cacheCaller[b].directory = d
                /\ cacheCaller[a].result # <<>> /\ cacheCaller[b].result # <<>>)
                   => cacheCaller[a].result = cacheCaller[b].result

(***************************************************************************)
(* buildResult: the call chains of a result.                               *)
(***************************************************************************)
Bounded(chains) == Len(chains) <= 10

NoRepeat(chains) ==
    \A i \in DOMAIN chains, j \in DOMAIN chains : i # j => chains[i] # chains[j]

\* C21: every result, of AnalyzeReachability and of any analyzer that recorded
\* relationships with any batches of paths, carries at most 10 call chains,
\* and no two of its chains are the same sequence of names.
C21_Chains ==
    /\ Asked => Bounded(res.CallChains) /\ NoRepeat(res.CallChains)
    /\ built # <<>> => Bounded(built[1].CallChains) /\ NoRepeat(built[1].CallChains)

\* The analyzer reached the limit of ten paths, the last of them a repeat of
\* the first: the result carries nine chains.
C21_Witness ==
    /\ built # <<>>
    /\ Len(analyzer.allPaths) = 10
    /\ analyzer.allPaths[10] = analyzer.allPaths[1]
    /\ Len(built[1].CallChains) = 9

(***************************************************************************)
(* calculatePathDepths: the depths of a list of call chains.               *)
(***************************************************************************)
EdgeCount(chain) == Len(chain) - 1

\* The chains after the first that end at another function than the first.
OtherEnd == {i \in 2..Len(depthPaths) : Last(depthPaths[i]) # Last(depthPaths[1])}

\* C22: for no chains the depths are (0, 0). Otherwise min is the smallest edge
\* count of a chain, and max is the largest edge count, or the largest sum of
\* the edge counts of the first chain and of a chain that ends at another
\* function than the first when that sum is larger. min <= max in every case.
C22_Depths ==
    depthResult # <<>> =>
        LET d == depthResult[1]
            counts == {EdgeCount(depthPaths[i]) : i \in DOMAIN depthPaths}
            sums == {EdgeCount(depthPaths[1]) + EdgeCount(depthPaths[i]) : i \in OtherEnd}
        IN  /\ d.min <= d.max
            /\ depthPaths = <<>> => d.min = 0 /\ d.max = 0
            /\ depthPaths # <<>> =>
                   /\ d.min \in counts /\ \A c \in counts : d.min <= c
                   /\ d.max \in counts \cup sums
                   /\ \A c \in counts \cup sums : c <= d.max

\* The first chain has one edge and the second, ending elsewhere, has two: the
\* maximum is their sum, 3.
C22_Witness ==
    /\ depthResult # <<>>
    /\ Len(depthPaths) = 2 /\ OtherEnd = {2}
    /\ EdgeCount(depthPaths[1]) = 1 /\ EdgeCount(depthPaths[2]) = 2
    /\ depthResult[1] = [min |-> 1, max |-> 3]

(***************************************************************************)
(* EnrichResults and ProcessItems: termination.                            *)
(***************************************************************************)
EnrichStarted == mainPC = "send"

\* EnrichResults returned, every worker left its loop, resultChan is closed.
EnrichFinished ==
    /\ mainPC = "done" /\ returnedErr = <<>>
    /\ resultClosed
    /\ \A w \in DOMAIN worker : worker[w].pc = "done"

PoolStarted == poolPC = "start"

\* ProcessItems returned; when it had items, every worker left its loop and
\* resultChan is closed.
PoolFinished ==
    /\ poolPC = "done" /\ poolReturned # <<>>
    /\ poolItems # <<>> =>
           /\ poolResultClosed
           /\ \A w \in DOMAIN poolWorker : poolWorker[w].pc = "done"

\* C23: under fair scheduling of the goroutines every call of EnrichResults and
\* every call of ProcessItems returns, with all workers exited and the result
\* channel closed, for every number of items and of workers and also when the
\* context ends while items are queued.
C23_Terminates ==
    /\ EnrichStarted ~> EnrichFinished
    /\ PoolStarted ~> PoolFinished

\* ProcessItems returned after its context ended with an item still queued,
\* which no worker processed.
C23_Witness ==
    /\ PoolFinished /\ ctxDone
    /\ Len(poolItems) = 2
    /\ processed[0] = 1 /\ processed[1] = 0

(***************************************************************************)
(* EnrichResults and ProcessItems: the close of the result channel.        *)
(***************************************************************************)
RECURSIVE SumTo(_, _)
SumTo(f, n) == IF n < 0 THEN 0 ELSE f[n] + SumTo(f, n - 1)

\* C24: in both functions the result channel is closed only when every worker
\* has finished, so no worker sends on the closed channel; and when the
\* function has left its collecting loop, every result a worker sent has been
\* received.
C24_CloseAfterWorkers ==
    /\ ~panicked
    /\ resultClosed => \A w \in DOMAIN worker : worker[w].pc = "done"
    /\ mainPC \notin {"idle", "send", "collect"} =>
           /\ resultClosed /\ resultChan = <<>>
           /\ \A i \in DOMAIN sentCount : sentCount[i] = 1
    /\ poolResultClosed => \A w \in DOMAIN poolWorker : poolWorker[w].pc = "done"
    /\ (poolPC = "done" /\ poolItems # <<>>) =>
           /\ poolResultClosed /\ poolResultChan = <<>>
           /\ completed = SumTo(processed, Len(poolItems) - 1)

\* EnrichResults with two workers and two findings: one result was sent per
\* finding, the channel was closed and the function left its collecting loop.
C24_Witness ==
    /\ mainPC = "done" /\ resultClosed
    /\ Len(worker) = 2 /\ Len(results) = 2
    /\ \A i \in DOMAIN sentCount : sentCount[i] = 1

(***************************************************************************)
(* EnrichResults: one worker and one result message per input index.       *)
(***************************************************************************)
\* The work items of index i waiting in workChan.
Queued(i) == Cardinality({k \in DOMAIN workChan : workChan[k].index = i})

\* The workers that took index i and have not sent its result yet.
Holding(i) == {w \in DOMAIN worker : worker[w].pc # "done" /\ worker[w].index = i}

\* The result messages of index i waiting in resultChan.
Carried(i) == Cardinality({k \in DOMAIN resultChan : resultChan[k].index = i})

\* C25: in every state of an EnrichResults call, an index that was queued is in
\* the work queue, or held by exactly one worker, or was sent as exactly one
\* result message, and never two of these; an index not yet queued is nowhere.
\* So no index is taken twice, no slot gets two messages, and at the return
\* every index has its one message.
C25_OncePerIndex ==
    mainPC # "idle" =>
        /\ \A i \in DOMAIN sentCount :
               /\ Queued(i) + Cardinality(Holding(i)) + sentCount[i] =
                      IF i < sendIndex THEN 1 ELSE 0
               /\ Carried(i) <= sentCount[i]
               /\ (Carried(i) = 0 /\ sentCount[i] = 0) => i \notin DOMAIN findingsMap
        /\ mainPC = "done" => \A i \in DOMAIN sentCount : sentCount[i] = 1

\* Two workers hold the two indices of a run at the same time.
C25_Witness ==
    /\ Len(worker) = 2 /\ Len(results) = 2
    /\ \E w \in DOMAIN worker, v \in DOMAIN worker :
           /\ worker[w].pc = "send" /\ worker[w].index = 0
           /\ worker[v].pc = "send" /\ worker[v].index = 1

(***************************************************************************)
(* EnrichResults: the intermediate functions of a finding.                 *)
(***************************************************************************)
\* The names of a finding's call chains other than its free and use function.
Between(finding) ==
    UNION {Range(chain) : chain \in Range(finding.CallValidation[1].CallChains)}
        \ {finding.CodeQLResult.FreeFunctionName, finding.CodeQLResult.UseFunctionName}

\* The entry of a name: the definition of the first registry function of that
\* name, or the placeholder when there is none.
EntryOf(name) ==
    IF Registered(name)
    THEN LET first == SetMin({k \in DOMAIN functions : functions[k].Name = name})
         IN  [DefinitionWithLineNumbers |-> <<"def">> \o functions[first].ID,
              Snippet |-> <<>>]
    ELSE [DefinitionWithLineNumbers |-> <<"// Function not found", name>>,
          Snippet |-> <<>>]

\* C26: a returned finding that was validated has exactly one intermediate
\* entry for every name of its call chains that is neither its free nor its
\* use function, and no other entry; a finding returned without validation has
\* none, and neither has a finding that a worker is about to report as dropped.
C26_Intermediates ==
    /\ Returned =>
           \A i \in DOMAIN findingsMap :
               LET finding == findingsMap[i]
                   entries == finding.SourceCode.IntermediateFunctions
               IN  IF Validating
                   THEN /\ Len(entries) = Cardinality(Between(finding))
                        /\ Range(entries) = {EntryOf(name) : name \in Between(finding)}
                   ELSE entries = <<>>
    /\ \A w \in DOMAIN worker :
           (worker[w].pc = "send" /\ ~worker[w].includeResult) =>
               worker[w].finding.SourceCode.IntermediateFunctions = <<>>

\* m2 frees and f uses, f calls m1 and m1 calls m2, under a source directory
\* for which the chain carries names that no function has: the returned finding
\* has three placeholder entries.
C26_Witness ==
    /\ Returned /\ Validating
    /\ \E i \in DOMAIN findingsMap :
           /\ results[i + 1].FreeFunctionName = "m2"
           /\ Cardinality(Between(findingsMap[i])) = 3
           /\ \A name \in Between(findingsMap[i]) : ~Registered(name)
           /\ Len(findingsMap[i].SourceCode.IntermediateFunctions) = 3

(***************************************************************************)
(* HasPath and FindCallChains.                                             *)
(***************************************************************************)
\* C30: for from # to and every maxDepth >= 0, HasPath is true exactly when
\* FindCallChains returns a chain, and exactly when the call graph has a path
\* of at most maxDepth calls from 'from' to 'to'.
C30_LegacyAgree ==
    (legacyResult # <<>> /\ legacyQuery[1].from # legacyQuery[1].to) =>
        LET q == legacyQuery[1]
            joined == q.from \in cg.vertices /\ q.to \in cg.vertices
                      /\ Within(q.from, q.to, q.maxDepth)
        IN  /\ legacyResult[1].hasPath <=> (legacyResult[1].chains # <<>>)
            /\ legacyResult[1].hasPath <=> joined

====
